---- MODULE Spec2Model ----
(***************************************************************************)
(* Model of the graph-construction engine of syn_parser                    *)
(* (src/src/parser/visitor.rs, relations.rs, graph.rs, graph_ids.rs).      *)
(*                                                                         *)
(* visitor_state is the VisitorState struct: the CodeGraph under           *)
(* construction, the two id allocators and the type-interning cache.       *)
(* history holds observation-only logs (ids handed out, interner calls,    *)
(* items dispatched); no operation of the program reads it.                *)
(***************************************************************************)
EXTENDS Integers, Sequences, FiniteSets, TLC

VARIABLES visitor_state, history, file, pc, idx, last

vars == <<visitor_state, history, file, pc, idx, last>>

(***************************************************************************)
(* Bounds of the model.                                                    *)
(***************************************************************************)
MaxItems == 2
MaxTypeId == 2
MaxNodeId == 1
MaxId == 2

(***************************************************************************)
(* Generic sequence helpers.                                               *)
(***************************************************************************)
Range(seq) == {seq[i] : i \in 1..Len(seq)}

RECURSIVE Join(_, _)
Join(seqs, sep) ==
    IF seqs = <<>> THEN <<>>
    ELSE IF Len(seqs) = 1 THEN Head(seqs)
    ELSE Head(seqs) \o <<sep>> \o Join(Tail(seqs), sep)

Last(seq) == seq[Len(seq)]

\* the value bound by a let: the element of a one-element set
The(S) == CHOOSE x \in S : TRUE

(***************************************************************************)
(* Syntax trees handed over by the front end (syn).  Every type            *)
(* expression is a record [k, name, flag, subs]:                           *)
(*   Path        name = last segment, subs = angle-bracketed arguments     *)
(*   Reference   flag = mutability, subs = <<elem>>                        *)
(*   Tuple       subs = elements                                           *)
(*   Slice       subs = <<elem>>                                           *)
(*   Paren       subs = <<elem>>                                           *)
(*   Never                                                                 *)
(*   TraitObject flag = dyn token present, subs = bounds (trait paths and  *)
(*               lifetimes)                                                *)
(*   ImplTrait   subs = bounds                                             *)
(*   Lifetime    name = the lifetime, only as a bound                      *)
(*   Verbatim    name = raw text (a shape process_type does not know)      *)
(***************************************************************************)
Ty(k, name, flag, subs) == [k |-> k, name |-> name, flag |-> flag, subs |-> subs]

TPath(name) == Ty("Path", name, FALSE, <<>>)
TGeneric(name, args) == Ty("Path", name, FALSE, args)
TRef(elem) == Ty("Reference", "", FALSE, <<elem>>)
TRefMut(elem) == Ty("Reference", "", TRUE, <<elem>>)
TTuple(elems) == Ty("Tuple", "", FALSE, elems)
TSlice(elem) == Ty("Slice", "", FALSE, <<elem>>)
TParen(elem) == Ty("Paren", "", FALSE, <<elem>>)
TNever == Ty("Never", "", FALSE, <<>>)
TDyn(bounds) == Ty("TraitObject", "", TRUE, bounds)
TBareObject(bounds) == Ty("TraitObject", "", FALSE, bounds)
TImplTrait(bounds) == Ty("ImplTrait", "", FALSE, bounds)
TVerbatim(text) == Ty("Verbatim", text, FALSE, <<>>)
TLifetime(name) == Ty("Lifetime", name, FALSE, <<>>)

(***************************************************************************)
(* ty.to_token_stream().to_string(): the canonical text of a type          *)
(* expression, as the sequence of its tokens.                              *)
(***************************************************************************)
RECURSIVE to_token_string(_)
to_token_string(ty) ==
    LET sub == [i \in 1..Len(ty.subs) |-> to_token_string(ty.subs[i])]
    IN CASE ty.k = "Path" ->
              IF ty.subs = <<>> THEN <<ty.name>>
              ELSE <<ty.name, "<">> \o Join(sub, ",") \o <<">">>
         [] ty.k = "Reference" ->
              <<"&">> \o (IF ty.flag THEN <<"mut">> ELSE <<>>) \o sub[1]
         [] ty.k = "Tuple" ->
              <<"(">> \o Join(sub, ",")
                      \o (IF Len(sub) = 1 THEN <<",">> ELSE <<>>) \o <<")">>
         [] ty.k = "Slice" -> <<"[">> \o sub[1] \o <<"]">>
         [] ty.k = "Paren" -> <<"(">> \o sub[1] \o <<")">>
         [] ty.k = "Never" -> <<"!">>
         [] ty.k = "TraitObject" ->
              (IF ty.flag THEN <<"dyn">> ELSE <<>>) \o Join(sub, "+")
         [] ty.k = "ImplTrait" -> <<"impl">> \o Join(sub, "+")
         [] OTHER -> <<ty.name>>

(***************************************************************************)
(* VisitorState::new                                                       *)
(***************************************************************************)
EmptyCodeGraph ==
    [functions |-> <<>>, defined_types |-> <<>>, type_graph |-> <<>>,
     impls |-> <<>>, traits |-> <<>>, private_traits |-> <<>>,
     relations |-> <<>>, modules |-> <<>>, values |-> <<>>, macros |-> <<>>]

VisitorStateNew ==
    [code_graph |-> EmptyCodeGraph,
     next_node_id |-> 0,
     next_type_id |-> 0,
     type_map |-> <<>>]

EmptyHistory ==
    [node_log |-> <<>>, type_log |-> <<>>, calls |-> {}, visited |-> <<>>,
     cur_module |-> 0, invocations |-> <<>>]

\* The record the operations below thread through: state and logs together.
Bundle(vs, h) == vs @@ h
StateOf(s) ==
    [f \in {"code_graph", "next_node_id", "next_type_id", "type_map"} |-> s[f]]
HistoryOf(s) ==
    [f \in {"node_log", "type_log", "calls", "visited", "cur_module",
             "invocations"} |-> s[f]]

(***************************************************************************)
(* Identifier allocators.  Each returns [s |-> new state, id |-> value].   *)
(* Below, an operator that runs several steps of its method one after the  *)
(* other binds the result of each step as The({.. : r \in {step}}); the    *)
(* steps nest, so they are read from the last line up.                     *)
(***************************************************************************)
next_node_id(s) ==
    [s |-> [s EXCEPT !.next_node_id = @ + 1,
                     !.node_log = Append(@, s.next_node_id)],
     id |-> s.next_node_id]

\* the counter of the other allocator is advanced
next_type_id_BumpsNodeCounter(s) ==
    [s |-> [s EXCEPT !.next_node_id = @ + 1,
                     !.type_log = Append(@, s.next_type_id)],
     id |-> s.next_type_id]

next_type_id(s) ==
    [s |-> [s EXCEPT !.next_type_id = @ + 1,
                     !.type_log = Append(@, s.next_type_id)],
     id |-> s.next_type_id]

PushType(s, node) ==
    [s EXCEPT !.code_graph.type_graph = Append(@, node)]

TypeNode(id, kind, related) == [id |-> id, kind |-> kind, related_types |-> related]

\* TypeKind values: [tag, path, is_mutable, text]
Kind(tag, path, m, text) == [tag |-> tag, path |-> path, is_mutable |-> m, text |-> text]

\* the result of a loop step put in front of the results of the later steps
Cons(id, rest) == [s |-> rest.s, ids |-> <<id>> \o rest.ids]

(***************************************************************************)
(* The type interner.                                                      *)
(***************************************************************************)
RECURSIVE get_or_create_type(_, _)
RECURSIVE process_type(_, _)
RECURSIVE intern_all(_, _)
RECURSIVE alloc_bounds(_, _)

\* iter().map(|t| self.get_or_create_type(t)).collect()
intern_all(s, tys) ==
    IF tys = <<>> THEN [s |-> s, ids |-> <<>>]
    ELSE The({Cons(h.id, intern_all(h.s, Tail(tys))) :
              h \in {get_or_create_type(s, Head(tys))}})

\* every trait bound is interned like an ordinary type
alloc_bounds_Interned(s, bounds) ==
    intern_all(s, SelectSeq(bounds, LAMBDA b : b.k = "Path"))

\* the filter_map over trait bounds of a trait object / impl Trait type:
\* every bound gets a new id and a new Named node, the cache is not consulted
alloc_bounds(s, bounds) ==
    IF bounds = <<>> THEN [s |-> s, ids |-> <<>>]
    ELSE IF Head(bounds).k # "Path" THEN alloc_bounds(s, Tail(bounds))
    ELSE The({Cons(a.id, alloc_bounds(
                  PushType(a.s, TypeNode(a.id,
                      Kind("Named", <<Head(bounds).name>>, FALSE, ""), <<>>)),
                  Tail(bounds))) :
              a \in {next_type_id(s)}})

process_type(s, ty) ==
    LET Many(r, kind) == [s |-> r.s, kind |-> kind, related |-> r.ids]
        One(r, kind) == [s |-> r.s, kind |-> kind, related |-> <<r.id>>]
    IN CASE ty.k = "Path" ->
              Many(intern_all(s, ty.subs), Kind("Named", <<ty.name>>, FALSE, ""))
         [] ty.k = "Reference" ->
              One(get_or_create_type(s, ty.subs[1]),
                  Kind("Reference", <<>>, ty.flag, ""))
         [] ty.k = "Tuple" ->
              Many(intern_all(s, ty.subs), Kind("Tuple", <<>>, FALSE, ""))
         [] ty.k = "Slice" ->
              One(get_or_create_type(s, ty.subs[1]), Kind("Slice", <<>>, FALSE, ""))
         [] ty.k = "Paren" ->
              One(get_or_create_type(s, ty.subs[1]), Kind("Paren", <<>>, FALSE, ""))
         [] ty.k = "Never" ->
              [s |-> s, kind |-> Kind("Never", <<>>, FALSE, ""), related |-> <<>>]
         [] ty.k = "TraitObject" ->
              Many(alloc_bounds(s, ty.subs), Kind("TraitObject", <<>>, ty.flag, ""))
         [] ty.k = "ImplTrait" ->
              Many(alloc_bounds(s, ty.subs), Kind("ImplTrait", <<>>, FALSE, ""))
         [] OTHER ->
              [s |-> s, kind |-> Kind("Unknown", <<>>, FALSE, to_token_string(ty)),
               related |-> <<>>]

\* the cache entry, the TypeNode and the record of the call
Interned(s, type_str, id, hit, nodes) ==
    [s |-> [s EXCEPT
              !.type_map = IF hit THEN @ ELSE (type_str :> id) @@ @,
              !.code_graph.type_graph = @ \o nodes,
              !.calls = @ \cup {<<type_str, id>>}],
     id |-> id]

\* the cache is never consulted
get_or_create_type_NoLookup(s, ty) ==
    The({The({Interned(a.s, to_token_string(ty), a.id, FALSE,
                       <<TypeNode(a.id, p.kind, p.related)>>) :
              a \in {next_type_id(p.s)}}) :
         p \in {process_type(s, ty)}})

get_or_create_type(s, ty) ==
    The({IF type_str \in DOMAIN s.type_map
         THEN Interned(s, type_str, s.type_map[type_str], TRUE, <<>>)
         ELSE The({The({Interned(a.s, type_str, a.id, FALSE,
                                 <<TypeNode(a.id, p.kind, p.related)>>) :
                        a \in {next_type_id(p.s)}}) :
                   p \in {process_type(s, ty)}}) :
         type_str \in {to_token_string(ty)}})

\* StateManagement::get_or_create_type of visitor/state.rs: the id is
\* allocated and cached, no TypeNode is appended
StateManagement_get_or_create_type(s, ty) ==
    The({IF type_str \in DOMAIN s.type_map
         THEN Interned(s, type_str, s.type_map[type_str], TRUE, <<>>)
         ELSE The({Interned(a.s, type_str, a.id, FALSE, <<>>) :
                   a \in {next_type_id(s)}}) :
         type_str \in {to_token_string(ty)}})

(***************************************************************************)
(* Function arguments.  arg = [k, name, is_mutable, ty] with k "Typed" or  *)
(* "Receiver"; name is <<>> for a pattern that is not a plain identifier.  *)
(***************************************************************************)
Arg(k, name, m, ty) == [k |-> k, name |-> name, is_mutable |-> m, ty |-> ty]

ParameterNode(id, name, type_id, m, is_self) ==
    [id |-> id, name |-> name, type_id |-> type_id, is_mutable |-> m,
     is_self |-> is_self]

process_fn_arg(s, arg) ==
    IF arg.k = "Typed"
    THEN The({The({[s |-> n.s,
                    param |-> ParameterNode(n.id, arg.name, t.id,
                                            arg.is_mutable, FALSE)] :
                   n \in {next_node_id(t.s)}}) :
              t \in {get_or_create_type(s, arg.ty)}})
    ELSE The({The({The({[s |-> n.s,
                         param |-> ParameterNode(n.id, <<"self">>, a.id,
                                                 arg.is_mutable, TRUE)] :
                        n \in {next_node_id(PushType(t.s, TypeNode(a.id,
                                   Kind("Named", <<"Self">>, FALSE, ""),
                                   <<t.id>>)))}}) :
                   t \in {get_or_create_type(a.s, arg.ty)}}) :
              a \in {next_type_id(s)}})

\* VisitorState::process_fn_arg of visitor/state.rs: the id of a typed
\* parameter is taken before its type is interned, and a receiver gets the
\* id of its declared type; the types go through the trait method
state_process_fn_arg(s, arg) ==
    IF arg.k = "Typed"
    THEN The({The({[s |-> t.s,
                    param |-> ParameterNode(n.id, arg.name, t.id,
                                            arg.is_mutable, FALSE)] :
                   t \in {StateManagement_get_or_create_type(n.s, arg.ty)}}) :
              n \in {next_node_id(s)}})
    ELSE The({The({[s |-> n.s,
                    param |-> ParameterNode(n.id, <<"self">>, t.id,
                                            arg.is_mutable, TRUE)] :
                   n \in {next_node_id(t.s)}}) :
              t \in {StateManagement_get_or_create_type(s, arg.ty)}})

(***************************************************************************)
(* Generic parameters.  param = [k, name, bounds, default, ty] with k      *)
(* "Type", "Lifetime" or "Const"; a bound is [k, name] with k "Trait",     *)
(* "Lifetime" or "Other"; default is <<>> or <<ty>>.                       *)
(***************************************************************************)
GParam(k, name, bounds, default, ty) ==
    [k |-> k, name |-> name, bounds |-> bounds, default |-> default, ty |-> ty]

Bound(k, name) == [k |-> k, name |-> name]

GenericParamNode(id, k, name, bounds, default, type_id) ==
    [id |-> id, k |-> k, name |-> name, bounds |-> bounds, default |-> default,
     type_id |-> type_id]

process_type_bound(s, bound) ==
    CASE bound.k = "Trait" -> get_or_create_type(s, TPath(bound.name))
      [] bound.k = "Lifetime" ->
           The({[s |-> PushType(a.s, TypeNode(a.id,
                           Kind("Named", <<"lifetime">>, FALSE, ""), <<>>)),
                 id |-> a.id] :
                a \in {next_type_id(s)}})
      [] OTHER -> next_type_id(s)

RECURSIVE process_type_bounds(_, _)
process_type_bounds(s, bounds) ==
    IF bounds = <<>> THEN [s |-> s, ids |-> <<>>]
    ELSE The({Cons(h.id, process_type_bounds(h.s, Tail(bounds))) :
              h \in {process_type_bound(s, Head(bounds))}})

\* default.as_ref().map(..) of a type parameter (visitor.rs 410-419)
process_default(s, default) ==
    IF default = <<>> THEN [s |-> s, id |-> <<>>]
    ELSE The({IF path \in DOMAIN s.type_map
              THEN [s |-> s, id |-> <<s.type_map[path]>>]
              ELSE The({[s |-> get_or_create_type(a.s, default[1]).s,
                         id |-> <<a.id>>] :
                        a \in {next_type_id(s)}}) :
              path \in {to_token_string(default[1])}})

process_generic_param(s, param) ==
    CASE param.k = "Type" ->
           The({The({The({[s |-> n.s,
                           node |-> GenericParamNode(n.id, "Type", param.name,
                                                     b.ids, d.id, <<>>)] :
                          n \in {next_node_id(d.s)}}) :
                     d \in {process_default(b.s, param.default)}}) :
                b \in {process_type_bounds(s, param.bounds)}})
      [] param.k = "Lifetime" ->
           The({[s |-> n.s,
                 node |-> GenericParamNode(n.id, "Lifetime", param.name,
                              [i \in 1..Len(param.bounds) |-> param.bounds[i].name],
                              <<>>, <<>>)] :
                n \in {next_node_id(s)}})
      [] OTHER ->
           The({The({[s |-> n.s,
                      node |-> GenericParamNode(n.id, "Const", param.name,
                                                <<>>, <<>>, <<t.id>>)] :
                     n \in {next_node_id(t.s)}}) :
                t \in {get_or_create_type(s, param.ty)}})

RECURSIVE process_generics(_, _)
process_generics(s, generics) ==
    IF generics = <<>> THEN [s |-> s, params |-> <<>>]
    ELSE The({The({[s |-> r.s, params |-> <<h.node>> \o r.params] :
                   r \in {process_generics(h.s, Tail(generics))}}) :
              h \in {process_generic_param(s, Head(generics))}})

(***************************************************************************)
(* Declarations.  Every item is a record                                   *)
(*   [k, name, vis, attrs, generics, params, ret, fields, variants,        *)
(*    self_ty, trait, methods, supers, content, body, ty, tree, is_mut]    *)
(* of which a kind uses the fields it has in syn; the others are empty.    *)
(*   vis      a syn::Visibility, [k, path]                                 *)
(*   attrs    the path names of the non-doc attributes                     *)
(*   ret      <<>> for ReturnType::Default, <<ty>> otherwise               *)
(*   trait    <<>> for an inherent impl, <<name>> for impl name for ..     *)
(*   content  the items of an inline module                                *)
(*   body     the items and macro invocations met when the default walk    *)
(*            descends into the block or the expression of the item        *)
(*   tree     the use tree of a use item, the tokens of a macro_rules body *)
(***************************************************************************)
VisPublic == [k |-> "Public", path |-> <<>>]
VisInherited == [k |-> "Inherited", path |-> <<>>]
VisRestricted(path) == [k |-> "Restricted", path |-> path]

Item(k, name, vis) ==
    [k |-> k, name |-> name, vis |-> vis, attrs |-> {}, generics |-> <<>>,
     params |-> <<>>, ret |-> <<>>, fields |-> <<>>, variants |-> <<>>,
     self_ty |-> TNever, trait |-> <<>>, methods |-> <<>>, supers |-> <<>>,
     content |-> <<>>, body |-> <<>>, ty |-> TNever, tree |-> <<>>,
     is_mut |-> FALSE]

Field(name, ty, vis) == [name |-> name, ty |-> ty, vis |-> vis]
Variant(name, shape, fields) == [name |-> name, shape |-> shape, fields |-> fields]

\* VisitorState::convert_visibility
convert_visibility(vis) ==
    CASE vis.k = "Public" -> [kind |-> "Public", path |-> <<>>]
      [] vis.k = "Restricted" -> [kind |-> "Restricted", path |-> vis.path]
      [] OTHER -> [kind |-> "Inherited", path |-> <<>>]

\* VisitorState::extract_attributes: the doc attributes are skipped
extract_attributes(attrs) == attrs \ {"doc"}

(***************************************************************************)
(* Relations.  Both ends are tagged ids, as Relation::new makes them from  *)
(* a NodeId or a TypeId.                                                   *)
(***************************************************************************)
GraphNodeId(type_prefix, unique_id) ==
    [type_prefix |-> type_prefix, unique_id |-> unique_id]

FromNodeId(id) == GraphNodeId("Node", id)
FromTypeId(id) == GraphNodeId("Type", id)
\* a trait id is tagged as a node id
FromTraitId_TaggedNode(id) == GraphNodeId("Node", id)
FromTraitId(id) == GraphNodeId("Trait", id)

Relation(source, target, kind) ==
    [source |-> source, target |-> target, kind |-> kind]

\* RelationVariant of an end of a relation
RelationVariant(graph_id) ==
    CASE graph_id.type_prefix = "Node" -> "Node"
      [] graph_id.type_prefix = "Trait" -> "Trait"
      [] graph_id.type_prefix = "Type" -> "Type"

type_name(graph_id) == RelationVariant(graph_id)

ValidOk == [ok |-> TRUE, err |-> "", expected |-> "", found |-> ""]
RelationError(err, kind, expected, found) ==
    [ok |-> FALSE, err |-> err, kind |-> kind, expected |-> expected,
     found |-> found]

\* Relation::validate_types: the source is tested first; both errors report
\* the source's type name as found
validate_types(rel, expected_source, expected_target, expected_source_variant, expected_target_variant) ==
    IF RelationVariant(rel.source) # expected_source_variant
    THEN RelationError("InvalidSourceType", rel.kind, expected_source,
                       type_name(rel.source))
    ELSE IF RelationVariant(rel.target) # expected_target_variant
    THEN RelationError("InvalidTargetType", rel.kind, expected_target,
                       type_name(rel.source))
    ELSE ValidOk

\* a self-loop is not reported
check_circular_dependency_NeverFails(rel) == ValidOk

\* Relation::check_circular_dependency: the numbers are compared, not the tags
check_circular_dependency(rel) ==
    IF rel.source.unique_id = rel.target.unique_id
    THEN [ok |-> FALSE, err |-> "CircularDependency", kind |-> rel.kind,
          source_id |-> rel.source, target_id |-> rel.target]
    ELSE ValidOk

\* first ? second
AndThen(first, second) == IF first.ok THEN second ELSE first

\* Relation::validate; trait_id is the payload of the ImplementsTrait kind
validate(rel, trait_id) ==
    CASE rel.kind = "ImplementsTrait" ->
           IF trait_id.unique_id = 0
           THEN RelationError("MissingTraitId", rel.kind, "", "")
           ELSE validate_types(rel, "Type", "Trait", "Type", "Trait")
      [] rel.kind \in {"FunctionParameter", "FunctionReturn", "Returns"} ->
           validate_types(rel, "Function", "Type", "Node", "Type")
      [] rel.kind = "StructField" ->
           validate_types(rel, "Struct", "Type", "Node", "Type")
      [] rel.kind = "EnumVariant" ->
           validate_types(rel, "Enum", "Type", "Node", "Type")
      [] rel.kind = "ImplementsFor" ->
           validate_types(rel, "Trait", "Type", "Trait", "Type")
      [] rel.kind = "Inherits" ->
           AndThen(validate_types(rel, "Type", "Type", "Type", "Type"),
                   check_circular_dependency(rel))
      [] rel.kind = "References" ->
           validate_types(rel, "Node", "Node", "Node", "Node")
      [] rel.kind = "Contains" ->
           AndThen(validate_types(rel, "Container", "Contained", "Node", "Node"),
                   check_circular_dependency(rel))
      [] rel.kind \in {"TypeDefinition", "Uses", "HasType"} ->
           validate_types(rel, "Node", "Type", "Node", "Type")
      [] rel.kind = "ValueType" ->
           validate_types(rel, "Node", "Primitive", "Node", "Type")
      [] rel.kind = "MacroUse" ->
           validate_types(rel, "Invocation", "Definition", "Node", "Node")
      [] rel.kind = "MacroExpansion" ->
           validate_types(rel, "Macro", "Expanded", "Node", "Node")
      [] rel.kind = "MacroDefinition" ->
           validate_types(rel, "Macro", "Signature", "Node", "Type")
      [] rel.kind = "MacroInvocation" ->
           validate_types(rel, "Caller", "Macro", "Node", "Node")
      [] rel.kind = "GenericParameter" ->
           validate_types(rel, "Generic", "Type", "Node", "Type")

\* the relation is put in front of the others
PushRelation_Prepends(s, rel) ==
    [s EXCEPT !.code_graph.relations = <<rel>> \o @]

PushRelation(s, rel) ==
    [s EXCEPT !.code_graph.relations = Append(@, rel)]

Visited(s, item, id, built) ==
    [s EXCEPT !.visited = Append(@, [k |-> item.k, name |-> item.name, id |-> id,
                                     parent |-> s.cur_module, built |-> built,
                                     item |-> item])]

(***************************************************************************)
(* Signatures: the parameter loop and the return type of a function, an    *)
(* impl method or a trait method.                                          *)
(***************************************************************************)
RECURSIVE process_params(_, _, _)
process_params(s, fn_id, args) ==
    IF args = <<>> THEN [s |-> s, parameters |-> <<>>]
    ELSE The({The({[s |-> r.s, parameters |-> <<p.param>> \o r.parameters] :
                   r \in {process_params(
                              PushRelation(p.s, Relation(FromNodeId(fn_id),
                                  FromNodeId(p.param.id), "FunctionParameter")),
                              fn_id, Tail(args))}}) :
              p \in {process_fn_arg(s, Head(args))}})

process_return(s, fn_id, ret) ==
    IF ret = <<>> THEN [s |-> s, return_type |-> <<>>]
    ELSE The({[s |-> PushRelation(t.s, Relation(FromNodeId(fn_id),
                         FromTypeId(t.id), "FunctionReturn")),
               return_type |-> <<t.id>>] :
              t \in {get_or_create_type(s, ret[1])}})

FunctionNode(id, name, visibility, parameters, return_type, generic_params, attrs) ==
    [id |-> id, name |-> name, visibility |-> visibility,
     parameters |-> parameters, return_type |-> return_type,
     generic_params |-> generic_params, attributes |-> attrs]

\* the id, the parameters, the return type and the generics of a function
\* or a method, taken in this order (read from the last line up): [s, node]
process_signature(s, func, visibility) ==
    The({The({The({The({
        [s |-> g.s,
         node |-> FunctionNode(n.id, func.name, visibility, p.parameters,
                      r.return_type, g.params, extract_attributes(func.attrs))] :
        g \in {process_generics(r.s, func.generics)}}) :
        r \in {process_return(p.s, n.id, func.ret)}}) :
        p \in {process_params(n.s, n.id, func.params)}}) :
        n \in {next_node_id(s)}})

\* a trait method keeps the visibility written on it
process_method_DeclaredVisibility(s, method, is_trait) ==
    process_signature(s, method, convert_visibility(method.vis))

\* one method of an impl block (is_trait FALSE) or of a trait (is_trait TRUE)
process_method(s, method, is_trait) ==
    process_signature(s, method,
        IF is_trait THEN [kind |-> "Public", path |-> <<>>]
        ELSE convert_visibility(method.vis))

RECURSIVE process_methods(_, _, _)
process_methods(s, methods, is_trait) ==
    IF methods = <<>> THEN [s |-> s, methods |-> <<>>]
    ELSE The({The({[s |-> r.s, methods |-> <<h.node>> \o r.methods] :
                   r \in {process_methods(h.s, Tail(methods), is_trait)}}) :
              h \in {process_method(s, Head(methods), is_trait)}})

(***************************************************************************)
(* The visitor: one operator per visit_* method of CodeVisitor.  Each      *)
(* takes the state and the syntax node and returns the state after the     *)
(* method, the default walk it ends with included.                         *)
(***************************************************************************)
FirstWhere(seq, P(_)) ==
    LET hits == {i \in 1..Len(seq) : P(seq[i])}
    IN IF hits = {} THEN <<>>
       ELSE <<seq[CHOOSE i \in hits : \A j \in hits : i <= j]>>

RECURSIVE visit_item(_, _)
RECURSIVE visit_item_fn(_, _)
RECURSIVE visit_item_impl(_, _)
RECURSIVE visit_item_trait(_, _)
RECURSIVE visit_item_mod(_, _)
RECURSIVE visit_item_const(_, _)
RECURSIVE visit_item_static(_, _)
RECURSIVE walk(_, _)
RECURSIVE walk_methods(_, _)

\* macro_path.split("::").last(): the token text of a path puts a space on
\* either side of each "::", so the last piece of a qualified path starts
\* with a space
last_of_macro_path(path) ==
    IF Len(path) = 1 THEN path[1] ELSE " " \o Last(path)

\* the record of a macro invocation: the NodeIds it took, the macros
\* recorded when it was met and the relations it added
Invoked(before, mac, id, after) ==
    [after EXCEPT !.invocations = Append(@,
        [path |-> mac.path, id |-> id,
         macros |-> before.code_graph.macros,
         ids |-> after.next_node_id - before.next_node_id,
         added |-> SubSeq(after.code_graph.relations,
                          Len(before.code_graph.relations) + 1,
                          Len(after.code_graph.relations))])]

\* visit_macro: a macro invocation met by the default walk
visit_macro(s, mac) ==
    The({The({Invoked(s, mac, n.id,
                  IF defined_macro # <<>>
                  THEN PushRelation(n.s, Relation(FromNodeId(n.id),
                           FromNodeId(defined_macro[1].id), "MacroUse"))
                  ELSE n.s) :
              defined_macro \in
                  {FirstWhere(n.s.code_graph.macros,
                       LAMBDA m : m.name = last_of_macro_path(mac.path))}}) :
         n \in {next_node_id(s)}})

\* the state after a nested visit, back in the module it started from
InModule(s, cur_module) == [s EXCEPT !.cur_module = cur_module]

\* the default walk over a block or expression: nested items are
\* dispatched, macro invocations go to visit_macro
walk(s, body) ==
    IF body = <<>> THEN s
    ELSE walk(InModule(IF Head(body).k = "MacroCall"
                       THEN visit_macro(s, Head(body))
                       ELSE visit_item(InModule(s, -1), Head(body)),
                       s.cur_module),
              Tail(body))

walk_methods(s, methods) ==
    IF methods = <<>> THEN s
    ELSE walk_methods(walk(s, Head(methods).body), Tail(methods))

ProcMacroAttrs == {"proc_macro", "proc_macro_derive", "proc_macro_attribute"}

\* the macro node visit_item_fn adds for a procedural macro
push_proc_macro(m, func) ==
    [m.s EXCEPT !.code_graph.macros = Append(@,
        [id |-> m.id, name |-> func.name,
         visibility |-> convert_visibility(func.vis),
         kind |-> <<"ProcedureMacro",
                    IF "proc_macro_derive" \in func.attrs THEN "Derive"
                    ELSE IF "proc_macro_attribute" \in func.attrs THEN "Attribute"
                    ELSE "Function">>,
         rules |-> <<>>,
         attributes |-> extract_attributes(func.attrs)])]

visit_item_fn(s, func) ==
    walk(The({Visited([f.s EXCEPT !.code_graph.functions = Append(@, f.node)],
                      func, f.node.id, TRUE) :
              f \in {process_signature(
                         IF func.attrs \cap ProcMacroAttrs # {}
                         THEN push_proc_macro(next_node_id(s), func)
                         ELSE s,
                         func, convert_visibility(func.vis))}}),
         func.body)

\* the field loop of a struct or a union
RECURSIVE process_fields(_, _, _)
\* the field loop of a struct or a union
process_fields(s, owner_id, fields) ==
    IF fields = <<>> THEN [s |-> s, fields |-> <<>>]
    ELSE The({The({The({
        [s |-> r.s,
         fields |-> <<[id |-> n.id, name |-> Head(fields).name,
                       type_id |-> t.id,
                       visibility |-> convert_visibility(Head(fields).vis)]>>
                    \o r.fields] :
        r \in {process_fields(
                   PushRelation(t.s, Relation(FromNodeId(owner_id),
                       FromNodeId(n.id), "StructField")),
                   owner_id, Tail(fields))}}) :
        t \in {get_or_create_type(n.s, Head(fields).ty)}}) :
        n \in {next_node_id(s)}})

TypeDefNode(tag, id, item, fields, variants, type_id, generic_params) ==
    [tag |-> tag, id |-> id, name |-> item.name,
     visibility |-> convert_visibility(item.vis), fields |-> fields,
     variants |-> variants, type_id |-> type_id,
     generic_params |-> generic_params,
     attributes |-> extract_attributes(item.attrs)]

PushDefinedType(s, node) ==
    [s EXCEPT !.code_graph.defined_types = Append(@, node)]

\* if matches!(item.vis, Visibility::Public(_)) { defined_types.push(..) }
StoreIfPublic(s, item, node) ==
    Visited(IF item.vis.k = "Public" THEN PushDefinedType(s, node) ELSE s,
            item, node.id, item.vis.k = "Public")

visit_item_struct(s, item_struct) ==
    The({The({The({
        StoreIfPublic(g.s, item_struct,
            TypeDefNode("Struct", n.id, item_struct, f.fields, <<>>, <<>>,
                        g.params)) :
        g \in {process_generics(f.s, item_struct.generics)}}) :
        f \in {process_fields(n.s, n.id, item_struct.fields)}}) :
        n \in {next_node_id(s)}})

visit_item_union(s, item_union) ==
    The({The({The({
        StoreIfPublic(g.s, item_union,
            TypeDefNode("Union", n.id, item_union, f.fields, <<>>, <<>>,
                        g.params)) :
        g \in {process_generics(f.s, item_union.generics)}}) :
        f \in {process_fields(n.s, n.id, item_union.fields)}}) :
        n \in {next_node_id(s)}})

visit_item_type(s, item_type) ==
    The({The({The({
        StoreIfPublic(g.s, item_type,
            TypeDefNode("TypeAlias", n.id, item_type, <<>>, <<>>, <<t.id>>,
                        g.params)) :
        g \in {process_generics(t.s, item_type.generics)}}) :
        t \in {get_or_create_type(n.s, item_type.ty)}}) :
        n \in {next_node_id(s)}})

\* the fields of one enum variant: ids and types, no relation
RECURSIVE process_variant_fields(_, _, _)
\* the fields of one enum variant: ids and types, no relation
process_variant_fields(s, shape, fields) ==
    IF fields = <<>> \/ shape = "Unit" THEN [s |-> s, fields |-> <<>>]
    ELSE The({The({The({
        [s |-> r.s,
         fields |-> <<[id |-> n.id,
                       name |-> IF shape = "Named" THEN Head(fields).name
                                ELSE <<>>,
                       type_id |-> t.id,
                       visibility |-> convert_visibility(Head(fields).vis)]>>
                    \o r.fields] :
        r \in {process_variant_fields(t.s, shape, Tail(fields))}}) :
        t \in {get_or_create_type(n.s, Head(fields).ty)}}) :
        n \in {next_node_id(s)}})

RECURSIVE process_variants(_, _, _)
process_variants(s, enum_id, variants) ==
    IF variants = <<>> THEN [s |-> s, variants |-> <<>>]
    ELSE The({The({The({
        [s |-> r.s,
         variants |-> <<[id |-> n.id, name |-> Head(variants).name,
                         fields |-> f.fields]>> \o r.variants] :
        r \in {process_variants(
                   PushRelation(f.s, Relation(FromNodeId(enum_id),
                       FromNodeId(n.id), "EnumVariant")),
                   enum_id, Tail(variants))}}) :
        f \in {process_variant_fields(n.s, Head(variants).shape,
                                      Head(variants).fields)}}) :
        n \in {next_node_id(s)}})

visit_item_enum(s, item_enum) ==
    The({The({The({
        StoreIfPublic(g.s, item_enum,
            TypeDefNode("Enum", n.id, item_enum, <<>>, v.variants, <<>>,
                        g.params)) :
        g \in {process_generics(v.s, item_enum.generics)}}) :
        v \in {process_variants(n.s, n.id, item_enum.variants)}}) :
        n \in {next_node_id(s)}})

\* "Skip impl blocks for non-public traits": TRUE when the impl is dropped
skip_impl(graph, trait_type_id) ==
    /\ trait_type_id # <<>>
    /\ \E trait_type \in {FirstWhere(graph.type_graph,
                                     LAMBDA x : x.id = trait_type_id[1])} :
         /\ trait_type # <<>>
         /\ trait_type[1].kind.tag = "Named"
         /\ \E trait_def \in
                {FirstWhere(graph.traits,
                     LAMBDA x : x.name = IF trait_type[1].kind.path # <<>>
                                         THEN Last(trait_type[1].kind.path)
                                         ELSE "")} :
              trait_def = <<>> \/ trait_def[1].visibility.kind # "Public"

\* the relation to the implemented trait is left out
push_impl_NoTraitRelation(s, impl_node) ==
    PushRelation([s EXCEPT !.code_graph.impls = Append(@, impl_node)],
        Relation(FromNodeId(impl_node.id), FromTypeId(impl_node.self_type),
            IF impl_node.trait_type # <<>> THEN "ImplementsTrait"
            ELSE "ImplementsFor"))

\* the ImplNode and the relations of an impl block that is kept
push_impl(s, impl_node) ==
    The({IF impl_node.trait_type # <<>>
         THEN PushRelation(pushed, Relation(FromNodeId(impl_node.id),
                  FromTypeId(impl_node.trait_type[1]), "ImplementsTrait"))
         ELSE pushed :
         pushed \in
             {PushRelation([s EXCEPT !.code_graph.impls = Append(@, impl_node)],
                  Relation(FromNodeId(impl_node.id),
                      FromTypeId(impl_node.self_type),
                      IF impl_node.trait_type # <<>> THEN "ImplementsTrait"
                      ELSE "ImplementsFor"))}})

\* the id, the self type, the trait type, the skip test, then the methods,
\* the generics and the node (read from the last line up)
visit_item_impl(s, item_impl) ==
    The({The({The({
        IF skip_impl(tt.s.code_graph, tt.id)
        THEN Visited(tt.s, item_impl, n.id, FALSE)
        ELSE walk_methods(
                 Visited(
                     The({The({
                         push_impl(g.s, [id |-> n.id, self_type |-> st.id,
                                         trait_type |-> tt.id,
                                         methods |-> m.methods,
                                         generic_params |-> g.params]) :
                         g \in {process_generics(m.s, item_impl.generics)}}) :
                         m \in {process_methods(tt.s, item_impl.methods, FALSE)}}),
                     item_impl, n.id, TRUE),
                 item_impl.methods) :
        tt \in {IF item_impl.trait = <<>> THEN [s |-> st.s, id |-> <<>>]
                ELSE The({[s |-> r.s, id |-> <<r.id>>] :
                          r \in {get_or_create_type(st.s,
                                     TPath(item_impl.trait[1]))}})}}) :
        st \in {get_or_create_type(n.s, item_impl.self_ty)}}) :
        n \in {next_node_id(s)}})

RECURSIVE process_super_traits(_, _)
\* the supertrait list: each bound is wrapped into a trait-object type
\* without dyn token and interned
process_super_traits(s, supers) ==
    IF supers = <<>> THEN [s |-> s, ids |-> <<>>]
    ELSE The({Cons(h.id, process_super_traits(h.s, Tail(supers))) :
              h \in {get_or_create_type(s, TBareObject(<<Head(supers)>>))}})

RECURSIVE push_inherits(_, _, _)
push_inherits(s, trait_id, super_traits) ==
    IF super_traits = <<>> THEN s
    ELSE push_inherits(PushRelation(s, Relation(FromNodeId(trait_id),
                           FromTypeId(Head(super_traits)), "Inherits")),
                       trait_id, Tail(super_traits))

\* the id, the methods, the generics, the supertraits, then the node and
\* its Inherits relations (read from the last line up)
visit_item_trait(s, item_trait) ==
    The({walk_methods(
             Visited(
                 The({The({The({
                     push_inherits(
                         [sup.s EXCEPT !.code_graph.traits = Append(@,
                             [id |-> n.id, name |-> item_trait.name,
                              visibility |-> convert_visibility(item_trait.vis),
                              methods |-> m.methods,
                              generic_params |-> g.params,
                              super_traits |-> sup.ids,
                              attributes |->
                                  extract_attributes(item_trait.attrs)])],
                         n.id, sup.ids) :
                     sup \in {process_super_traits(g.s, item_trait.supers)}}) :
                     g \in {process_generics(m.s, item_trait.generics)}}) :
                     m \in {process_methods(n.s, item_trait.methods, TRUE)}}),
                 item_trait, n.id, TRUE),
             item_trait.methods) :
         n \in {next_node_id(s)}})

\* CodeVisitor::extract_use_path; a use tree is [k, ident, rename, sub]
UseTree(k, ident, rename, sub) ==
    [k |-> k, ident |-> ident, rename |-> rename, sub |-> sub]

RECURSIVE extract_use_path(_, _)
extract_use_path(use_tree, path_segments) ==
    CASE use_tree.k = "Path" ->
           extract_use_path(use_tree.sub[1], Append(path_segments, use_tree.ident))
      [] use_tree.k = "Name" -> Append(path_segments, use_tree.ident)
      [] use_tree.k = "Rename" ->
           Append(path_segments, use_tree.ident \o " as " \o use_tree.rename)
      [] use_tree.k = "Glob" -> Append(path_segments, "*")
      [] OTHER -> path_segments

\* a new Named type for an imported path and the Uses relation to it
push_uses(n, path_segments) ==
    The({PushRelation(
             PushType(a.s, TypeNode(a.id,
                 Kind("Named", path_segments, FALSE, ""), <<>>)),
             Relation(FromNodeId(n.id), FromTypeId(a.id), "Uses")) :
         a \in {next_type_id(n.s)}})

visit_item_use(s, use_item) ==
    The({The({Visited(IF path_segments # <<>> THEN push_uses(n, path_segments)
                      ELSE n.s,
                      use_item, n.id, FALSE) :
              path_segments \in {extract_use_path(use_item.tree, <<>>)}}) :
         n \in {next_node_id(s)}})

visit_item_extern_crate(s, extern_crate) ==
    The({Visited(push_uses(n, <<extern_crate.name>>), extern_crate, n.id, FALSE) :
         n \in {next_node_id(s)}})

ValueNode(id, item, type_id, kind) ==
    [id |-> id, name |-> item.name, visibility |-> convert_visibility(item.vis),
     type_id |-> type_id, kind |-> kind,
     attributes |-> extract_attributes(item.attrs)]

\* a constant (kind <<"Constant">>) or a static (kind <<"Static", is_mutable>>)
visit_value(s, item, kind) ==
    IF item.vis.k = "Public"
    THEN The({The({
             Visited(
                 PushRelation(
                     [t.s EXCEPT !.code_graph.values = Append(@,
                         ValueNode(n.id, item, t.id, kind))],
                     Relation(FromNodeId(n.id), FromTypeId(t.id), "ValueType")),
                 item, n.id, TRUE) :
             t \in {get_or_create_type(n.s, item.ty)}}) :
             n \in {next_node_id(s)}})
    ELSE Visited(s, item, -1, FALSE)

visit_item_const(s, item_const) ==
    walk(visit_value(s, item_const, <<"Constant">>), item_const.body)

visit_item_static(s, item_static) ==
    walk(visit_value(s, item_static, <<"Static", item_static.is_mut>>),
         item_static.body)

\* tokens_str.split(";"): the pieces of a macro_rules body
RECURSIVE split_rules(_, _)
split_rules(tokens, piece) ==
    IF tokens = <<>> THEN <<piece>>
    ELSE IF Head(tokens) = ";" THEN <<piece>> \o split_rules(Tail(tokens), <<>>)
    ELSE split_rules(Tail(tokens), Append(piece, Head(tokens)))

\* rule.find("=>"): 0 when the piece has no arrow
find_arrow(rule) ==
    LET arrows == {i \in 1..Len(rule) : rule[i] = "=>"}
    IN IF arrows = {} THEN 0 ELSE CHOOSE i \in arrows : \A j \in arrows : i <= j

RECURSIVE process_rules(_, _)
process_rules(s, pieces) ==
    IF pieces = <<>> THEN [s |-> s, rules |-> <<>>]
    ELSE The({IF at = 0 THEN process_rules(s, Tail(pieces))
              ELSE The({The({
                  [s |-> r.s,
                   rules |-> <<[id |-> n.id,
                                pattern |-> SubSeq(Head(pieces), 1, at - 1),
                                expansion |-> SubSeq(Head(pieces), at + 1,
                                                     Len(Head(pieces)))]>>
                             \o r.rules] :
                  r \in {process_rules(n.s, Tail(pieces))}}) :
                  n \in {next_node_id(s)}}) :
              at \in {find_arrow(Head(pieces))}})

visit_item_macro(s, item_macro) ==
    IF "macro_export" \notin item_macro.attrs
    THEN Visited(s, item_macro, -1, FALSE)
    ELSE The({The({
             Visited(
                 [r.s EXCEPT !.code_graph.macros = Append(@,
                     [id |-> n.id, name |-> item_macro.name,
                      visibility |-> [kind |-> "Public", path |-> <<>>],
                      kind |-> <<"DeclarativeMacro">>, rules |-> r.rules,
                      attributes |-> extract_attributes(item_macro.attrs)])],
                 item_macro, n.id, TRUE) :
             r \in {process_rules(n.s, split_rules(item_macro.tree, <<>>))}}) :
             n \in {next_node_id(s)}})

\* the match of the first loop of visit_item_mod
visit_mod_item(s, item) ==
    CASE item.k = "Fn" -> visit_item_fn(s, item)
      [] item.k = "Struct" -> visit_item_struct(s, item)
      [] item.k = "Enum" -> visit_item_enum(s, item)
      [] item.k = "Impl" -> visit_item_impl(s, item)
      [] item.k = "Trait" -> visit_item_trait(s, item)
      [] item.k = "Type" -> visit_item_type(s, item)
      [] item.k = "Union" -> visit_item_union(s, item)
      [] item.k = "Mod" -> visit_item_mod(s, item)
      [] item.k = "Use" -> visit_item_use(s, item)
      [] item.k = "ExternCrate" -> visit_item_extern_crate(s, item)
      [] item.k = "Const" -> visit_item_const(s, item)
      [] item.k = "Static" -> visit_item_static(s, item)
      [] item.k = "Macro" -> visit_item_macro(s, item)
      [] OTHER -> s

RECURSIVE visit_mod_items(_, _)
\* the first loop of visit_item_mod: an id is taken for every item before
\* the item is dispatched
visit_mod_items(s, mod_items) ==
    IF mod_items = <<>> THEN [s |-> s, items |-> <<>>, submodules |-> <<>>]
    ELSE The({The({
        [s |-> r.s, items |-> <<n.id>> \o r.items,
         submodules |-> (IF Head(mod_items).k = "Mod" THEN <<n.id>> ELSE <<>>)
                        \o r.submodules] :
        r \in {visit_mod_items(visit_mod_item(n.s, Head(mod_items)),
                               Tail(mod_items))}}) :
        n \in {next_node_id(s)}})

\* the node the second loop of visit_item_mod finds for an item, by name
find_by_name(graph, item) ==
    CASE item.k = "Fn" ->
           FirstWhere(graph.functions, LAMBDA f : f.name = item.name)
      [] item.k = "Struct" ->
           FirstWhere(graph.defined_types,
                      LAMBDA d : d.tag = "Struct" /\ d.name = item.name)
      [] item.k = "Enum" ->
           FirstWhere(graph.defined_types,
                      LAMBDA d : d.tag = "Enum" /\ d.name = item.name)
      [] item.k = "Type" ->
           FirstWhere(graph.defined_types,
                      LAMBDA d : d.tag = "TypeAlias" /\ d.name = item.name)
      [] item.k = "Union" ->
           FirstWhere(graph.defined_types,
                      LAMBDA d : d.tag = "Union" /\ d.name = item.name)
      [] item.k = "Trait" ->
           FirstWhere(graph.traits, LAMBDA x : x.name = item.name)
      [] item.k = "Const" ->
           FirstWhere(graph.values,
                      LAMBDA v : v.name = item.name /\ v.kind[1] = "Constant")
      [] item.k = "Static" ->
           FirstWhere(graph.values,
                      LAMBDA v : v.name = item.name /\ v.kind[1] = "Static")
      [] item.k = "Macro" ->
           FirstWhere(graph.macros, LAMBDA m : m.name = item.name)
      [] OTHER -> <<>>

RECURSIVE push_contains(_, _, _)
\* the second loop of visit_item_mod
push_contains(s, module_id, mod_items) ==
    IF mod_items = <<>> THEN s
    ELSE push_contains(
             The({IF found # <<>>
                  THEN PushRelation(s, Relation(FromNodeId(module_id),
                           FromNodeId(found[1].id), "Contains"))
                  ELSE s :
                  found \in {find_by_name(s.code_graph, Head(mod_items))}}),
             module_id, Tail(mod_items))

ModuleNode(id, name, visibility, attrs, submodules, items) ==
    [id |-> id, name |-> name, visibility |-> visibility, attributes |-> attrs,
     submodules |-> submodules, items |-> items]

\* the visibility visit_item_mod records for a module
module_visibility(module) ==
    IF module.name = "private_module" /\ module.vis.k = "Inherited"
    THEN [kind |-> "Restricted", path |-> <<"super">>]
    ELSE convert_visibility(module.vis)

visit_item_mod(s, module) ==
    The({The({
        Visited(
            push_contains(
                [inner.s EXCEPT
                   !.cur_module = s.cur_module,
                   !.code_graph.modules = Append(@,
                       ModuleNode(n.id, module.name, module_visibility(module),
                                  extract_attributes(module.attrs),
                                  inner.submodules, inner.items))],
                n.id, module.content),
            module, n.id, TRUE) :
        inner \in {visit_mod_items(InModule(n.s, n.id), module.content)}}) :
        n \in {next_node_id(s)}})

\* Visit::visit_item, the dispatch of syn's default walk to the overridden
\* methods; the kinds the visitor does not override leave the state alone
visit_item(s, item) ==
    CASE item.k = "Fn" -> visit_item_fn(s, item)
      [] item.k = "Struct" -> visit_item_struct(s, item)
      [] item.k = "Enum" -> visit_item_enum(s, item)
      [] item.k = "Union" -> visit_item_union(s, item)
      [] item.k = "Type" -> visit_item_type(s, item)
      [] item.k = "Impl" -> visit_item_impl(s, item)
      [] item.k = "Trait" -> visit_item_trait(s, item)
      [] item.k = "Mod" -> visit_item_mod(s, item)
      [] item.k = "Use" -> visit_item_use(s, item)
      [] item.k = "ExternCrate" -> visit_item_extern_crate(s, item)
      [] item.k = "Const" -> visit_item_const(s, item)
      [] item.k = "Static" -> visit_item_static(s, item)
      [] item.k = "Macro" -> visit_item_macro(s, item)
      [] OTHER -> s

(***************************************************************************)
(* Inputs of the operations.                                               *)
(***************************************************************************)
I32 == TPath("i32")
TypeExprs ==
    {I32, TPath("S"), TPath("T"),
     TRef(I32), TGeneric("Vec", <<I32>>), TTuple(<<I32, TRef(I32)>>),
     TDyn(<<TPath("T"), TLifetime("'a")>>), TBareObject(<<TPath("T")>>),
     TImplTrait(<<TPath("T")>>), TVerbatim("typeof(x)")}

FnArgs ==
    {Arg("Typed", <<"x">>, FALSE, I32),
     Arg("Typed", <<>>, FALSE, TDyn(<<TPath("T"), TLifetime("'a")>>)),
     Arg("Receiver", <<"self">>, FALSE, TRef(TPath("Self"))),
     Arg("Receiver", <<"self">>, TRUE, TPath("Self"))}

GenericLists ==
    {<<GParam("Type", "T", <<Bound("Trait", "T")>>, <<>>, I32)>>,
     <<GParam("Type", "U", <<Bound("Lifetime", "a")>>, <<I32>>, I32)>>,
     <<GParam("Lifetime", "a", <<Bound("Lifetime", "b")>>, <<>>, I32),
       GParam("Const", "N", <<>>, <<>>, TPath("usize"))>>}

(***************************************************************************)
(* The declarations the input files are made of.                           *)
(***************************************************************************)
\* pub fn f(x: i32) -> i32 { x }
FnF == [Item("Fn", "f", VisPublic) EXCEPT
            !.params = <<Arg("Typed", <<"x">>, FALSE, I32)>>, !.ret = <<I32>>]
\* pub fn g() {}
FnG == Item("Fn", "g", VisPublic)
\* fn h<T: Show>(t: T) { m!(); fn local() {} }
FnH == [Item("Fn", "h", VisInherited) EXCEPT
            !.generics = <<GParam("Type", "T", <<Bound("Trait", "Show")>>, <<>>, I32)>>,
            !.params = <<Arg("Typed", <<"t">>, FALSE, TPath("T"))>>,
            !.body = <<[k |-> "MacroCall", path |-> <<"m">>],
                        Item("Fn", "local", VisInherited)>>]
\* #[proc_macro] pub fn pm(input: TokenStream) -> TokenStream { crate::m!() }
FnPm == [Item("Fn", "pm", VisPublic) EXCEPT
            !.attrs = {"proc_macro"},
            !.body = <<[k |-> "MacroCall", path |-> <<"crate", "m">>]>>,
            !.params = <<Arg("Typed", <<"input">>, FALSE, TPath("TokenStream"))>>,
            !.ret = <<TPath("TokenStream")>>]
\* struct S { a: i32, a2: i32 }
StructS == [Item("Struct", "S", VisInherited) EXCEPT
            !.fields = <<Field(<<"a">>, I32, VisInherited),
                         Field(<<"a2">>, I32, VisInherited)>>]
\* pub struct Q { pub a: i32, pub r: &mut i32, pub b: i32 }
StructQ == [Item("Struct", "Q", VisPublic) EXCEPT
            !.fields = <<Field(<<"a">>, I32, VisPublic),
                         Field(<<"r">>, TRefMut(I32), VisPublic),
                         Field(<<"b">>, I32, VisPublic)>>]
\* pub struct Unit;
StructUnit == Item("Struct", "Unit", VisPublic)
\* pub enum E { A, B([i32]), C { x: i32 } }
EnumE == [Item("Enum", "E", VisPublic) EXCEPT
            !.variants = <<Variant("A", "Unit", <<>>),
                           Variant("B", "Unnamed",
                                   <<Field(<<>>, TSlice(I32), VisInherited)>>),
                           Variant("C", "Named", <<Field(<<"x">>, I32, VisInherited)>>)>>]
\* pub union IntOrFloat { i: i32, f: f32 }
UnionU == [Item("Union", "IntOrFloat", VisPublic) EXCEPT
            !.fields = <<Field(<<"i">>, I32, VisInherited),
                         Field(<<"f">>, TPath("f32"), VisInherited)>>]
\* pub type StringVec = Vec<String>;
TypeA == [Item("Type", "StringVec", VisPublic) EXCEPT
            !.ty = TGeneric("Vec", <<TPath("String")>>)]
\* pub trait T { fn m(&self) -> i32; }
TraitM == [Item("Fn", "m", VisInherited) EXCEPT
            !.params = <<Arg("Receiver", <<"self">>, FALSE,
                             TRef(TPath("Self")))>>,
            !.ret = <<I32>>]
TraitT == [Item("Trait", "T", VisPublic) EXCEPT !.methods = <<TraitM>>]
\* trait P {}
TraitP == Item("Trait", "P", VisInherited)
\* pub(crate) trait R { fn m(&self) -> i32; }
TraitR == [Item("Trait", "R", VisRestricted(<<"crate">>)) EXCEPT
            !.methods = <<TraitM>>]
\* pub trait U: P {}
TraitU == [Item("Trait", "U", VisPublic) EXCEPT !.supers = <<TPath("P")>>]
\* impl T for S { fn m(&self) -> i32 { 0 } }
ImplTS == [Item("Impl", "", VisInherited) EXCEPT
            !.trait = <<"T">>, !.self_ty = TPath("S"), !.methods = <<TraitM>>]
\* impl P for S {}
ImplPS == [Item("Impl", "", VisInherited) EXCEPT !.trait = <<"P">>, !.self_ty = TPath("S")]
\* impl R for S {}
ImplRS == [Item("Impl", "", VisInherited) EXCEPT !.trait = <<"R">>, !.self_ty = TPath("S")]
\* impl S { pub fn new() -> S { .. } }
ImplS == [Item("Impl", "", VisInherited) EXCEPT
            !.self_ty = TPath("S"),
            !.methods = <<[Item("Fn", "new", VisPublic) EXCEPT !.ret = <<TPath("S")>>]>>]
\* use std::fmt;
UseFmt == [Item("Use", "", VisInherited) EXCEPT
            !.tree = UseTree("Path", "std", "", <<UseTree("Name", "fmt", "", <<>>)>>)]
\* use {a, b};
UseGroup == [Item("Use", "", VisInherited) EXCEPT
            !.tree = UseTree("Group", "", "", <<UseTree("Name", "a", "", <<>>)>>)]
\* extern crate serde;
ExternSerde == Item("ExternCrate", "serde", VisInherited)
\* pub const C: i32 = 1;
ConstC == [Item("Const", "C", VisPublic) EXCEPT !.ty = I32]
\* static mut G: i32 = 0;
StaticG == [Item("Static", "G", VisInherited) EXCEPT !.ty = I32, !.is_mut = TRUE]
\* pub static H: (i32) = 0;
StaticH == [Item("Static", "H", VisPublic) EXCEPT !.ty = TParen(I32)]
\* #[macro_export] macro_rules! m { () => { 1 }; ($x:expr) => { $x }; }
MacroM == [Item("Macro", "m", VisInherited) EXCEPT
            !.attrs = {"macro_export"},
            !.tree = <<"()", "=>", "{1}", ";", "($x:expr)", "=>", "{$x}", ";">>]
\* macro_rules! local { () => {} }
MacroLocal == [Item("Macro", "local", VisInherited) EXCEPT
            !.tree = <<"()", "=>", "{}">>]
\* mod inner { pub fn g() {} }
ModInner == [Item("Mod", "inner", VisInherited) EXCEPT !.content = <<FnG>>]
\* pub mod outer { mod nested { pub struct Q {..} } pub fn f(x: i32) -> i32 {..} }
ModOuter == [Item("Mod", "outer", VisPublic) EXCEPT
            !.content = <<[Item("Mod", "nested", VisInherited) EXCEPT
                               !.content = <<StructQ>>],
                          FnF>>]
\* mod private_module { trait P {} pub trait U: P {} impl P for S {} }
ModPrivate == [Item("Mod", "private_module", VisInherited) EXCEPT
            !.content = <<TraitP, TraitU, ImplPS>>]

Items ==
    {FnF, FnG, FnH, FnPm, StructS, StructQ, StructUnit, EnumE, UnionU, TypeA,
     TraitT, TraitP, TraitR, TraitU, ImplTS, ImplPS, ImplRS, ImplS,
     UseFmt, UseGroup, ExternSerde, ConstC, StaticG, StaticH, MacroM, MacroLocal,
     ModInner, ModOuter, ModPrivate}

RECURSIVE SeqsUpTo(_, _)
SeqsUpTo(set, n) ==
    IF n = 0 THEN {<<>>}
    ELSE LET shorter == SeqsUpTo(set, n - 1)
         IN shorter \cup {Append(q, x) : q \in shorter, x \in set}

Files == SeqsUpTo(Items, MaxItems)

Obs(op, key, hit, id) ==
    [op |-> op, key |-> key, hit |-> hit, id |-> id, ty |-> TNever]

(***************************************************************************)
(* StateSpec: the operations of VisitorState called in any order.          *)
(***************************************************************************)
S == Bundle(visitor_state, history)

Commit(s) ==
    /\ visitor_state' = StateOf(s)
    /\ history' = HistoryOf(s)

InBounds ==
    /\ visitor_state.next_type_id <= MaxTypeId
    /\ visitor_state.next_node_id <= MaxNodeId

StateInit ==
    /\ visitor_state = VisitorStateNew
    /\ history = EmptyHistory
    /\ file = <<>>
    /\ pc = "ops"
    /\ idx = 0
    /\ last = Obs("new", <<>>, FALSE, 0)

\* the state an operation leaves and what its caller saw of it
Return(s, op, key, id) ==
    /\ Commit(s)
    /\ last' = Obs(op, key, key \in DOMAIN visitor_state.type_map, id)
    /\ UNCHANGED <<file, pc, idx>>

\* the state process_fn_arg leaves, its argument and the parameter it built
Processed(s, arg, param) ==
    /\ Commit(s)
    /\ last' = [op |-> "process_fn_arg", arg |-> arg, param |-> param]
    /\ UNCHANGED <<file, pc, idx>>

CallGetOrCreateType ==
    /\ pc = "ops" /\ InBounds
    /\ \E ty \in TypeExprs :
         \E r \in {get_or_create_type(S, ty)} :
             /\ Commit(r.s)
             /\ last' = [Obs("get_or_create_type", to_token_string(ty),
                             to_token_string(ty) \in DOMAIN visitor_state.type_map,
                             r.id) EXCEPT !.ty = ty]
             /\ UNCHANGED <<file, pc, idx>>

CallStateManagementGetOrCreateType ==
    /\ pc = "ops" /\ InBounds
    /\ \E ty \in TypeExprs :
         \E r \in {StateManagement_get_or_create_type(S, ty)} :
             Return(r.s, "StateManagement::get_or_create_type",
                    to_token_string(ty), r.id)

CallNextNodeId ==
    /\ pc = "ops" /\ InBounds
    /\ \E r \in {next_node_id(S)} : Return(r.s, "next_node_id", <<>>, r.id)

CallNextTypeId ==
    /\ pc = "ops" /\ InBounds
    /\ \E r \in {next_type_id(S)} : Return(r.s, "next_type_id", <<>>, r.id)

CallProcessFnArg ==
    /\ pc = "ops" /\ InBounds
    /\ \E arg \in FnArgs :
         \E r \in {process_fn_arg(S, arg)} : Processed(r.s, arg, r.param)

CallStateProcessFnArg ==
    /\ pc = "ops" /\ InBounds
    /\ \E arg \in FnArgs :
         \E r \in {state_process_fn_arg(S, arg)} : Processed(r.s, arg, r.param)

CallProcessGenerics ==
    /\ pc = "ops" /\ InBounds
    /\ \E generics \in GenericLists :
         \E r \in {process_generics(S, generics)} :
            /\ Commit(r.s)
            /\ last' = [op |-> "process_generics", generics |-> generics,
                        params |-> r.params]
            /\ UNCHANGED <<file, pc, idx>>

StateNext ==
    \/ CallGetOrCreateType
    \/ CallStateManagementGetOrCreateType
    \/ CallNextNodeId
    \/ CallNextTypeId
    \/ CallProcessFnArg
    \/ CallStateProcessFnArg
    \/ CallProcessGenerics

StateSpec == StateInit /\ [][StateNext]_vars

(***************************************************************************)
(* Spec: analyze_code on one input file.                                   *)
(***************************************************************************)
RootModuleId == visitor_state.code_graph.modules[1].id

Init ==
    /\ visitor_state = VisitorStateNew
    /\ history = EmptyHistory
    /\ file \in Files
    /\ pc = "start"
    /\ idx = 1
    /\ last = Obs("new", <<>>, FALSE, 0)

\* VisitorState::new and the creation of the root module
push_root_module(n) ==
    [n.s EXCEPT
       !.cur_module = n.id,
       !.code_graph.modules = Append(@,
           ModuleNode(n.id, "root", [kind |-> "Inherited", path |-> <<>>],
                      {}, <<>>, <<>>))]

AnalyzeStart ==
    /\ pc = "start"
    /\ Commit(push_root_module(next_node_id(S)))
    /\ pc' = "visit"
    /\ last' = Obs("analyze_code", <<>>, FALSE, 0)
    /\ UNCHANGED <<file, idx>>

\* visitor.visit_file: the next top-level item is of kind k
AtItem(k) ==
    /\ pc = "visit"
    /\ idx <= Len(file)
    /\ file[idx].k = k

\* the item is dispatched a second time before the loop moves on
Dispatch_Twice ==
    /\ Commit(visit_item(visit_item(S, file[idx]), file[idx]))
    /\ idx' = idx + 1
    /\ last' = Obs("visit_item", <<>>, FALSE, 0)
    /\ UNCHANGED <<file, pc>>

\* the item goes to its visit method and the loop moves on
Dispatch ==
    /\ Commit(visit_item(S, file[idx]))
    /\ idx' = idx + 1
    /\ last' = Obs("visit_item", <<>>, FALSE, 0)
    /\ UNCHANGED <<file, pc>>

VisitItemFn ==
    /\ AtItem("Fn")
    /\ Dispatch

VisitItemStruct ==
    /\ AtItem("Struct")
    /\ Dispatch

VisitItemEnum ==
    /\ AtItem("Enum")
    /\ Dispatch

VisitItemUnion ==
    /\ AtItem("Union")
    /\ Dispatch

VisitItemType ==
    /\ AtItem("Type")
    /\ Dispatch

VisitItemImpl ==
    /\ AtItem("Impl")
    /\ Dispatch

VisitItemTrait ==
    /\ AtItem("Trait")
    /\ Dispatch

VisitItemMod ==
    /\ AtItem("Mod")
    /\ Dispatch

VisitItemUse ==
    /\ AtItem("Use")
    /\ Dispatch

VisitItemExternCrate ==
    /\ AtItem("ExternCrate")
    /\ Dispatch

VisitItemConst ==
    /\ AtItem("Const")
    /\ Dispatch

VisitItemStatic ==
    /\ AtItem("Static")
    /\ Dispatch

VisitItemMacro ==
    /\ AtItem("Macro")
    /\ Dispatch

\* the root module is not left out of its own loop
RECURSIVE push_root_contains_NoRootTest(_, _, _)
push_root_contains_NoRootTest(s, root_module_id, modules) ==
    IF modules = <<>> THEN s
    ELSE push_root_contains_NoRootTest(
             PushRelation(s, Relation(FromNodeId(root_module_id),
                 FromNodeId(Head(modules).id), "Contains")),
             root_module_id, Tail(modules))

\* the loop of analyze_code after the walk: root module -> every other module
RECURSIVE push_root_contains(_, _, _)
push_root_contains(s, root_module_id, modules) ==
    IF modules = <<>> THEN s
    ELSE push_root_contains(
             IF Head(modules).id # root_module_id
             THEN PushRelation(s, Relation(FromNodeId(root_module_id),
                      FromNodeId(Head(modules).id), "Contains"))
             ELSE s,
             root_module_id, Tail(modules))

AnalyzeFinish ==
    /\ pc = "visit"
    /\ idx > Len(file)
    /\ Commit(push_root_contains(S, RootModuleId, visitor_state.code_graph.modules))
    /\ pc' = "done"
    /\ last' = Obs("finish", <<>>, FALSE, 0)
    /\ UNCHANGED <<file, idx>>

Next ==
    \/ AnalyzeStart
    \/ VisitItemFn
    \/ VisitItemStruct
    \/ VisitItemEnum
    \/ VisitItemUnion
    \/ VisitItemType
    \/ VisitItemImpl
    \/ VisitItemTrait
    \/ VisitItemMod
    \/ VisitItemUse
    \/ VisitItemExternCrate
    \/ VisitItemConst
    \/ VisitItemStatic
    \/ VisitItemMacro
    \/ AnalyzeFinish

Spec == Init /\ [][Next]_vars

\* analyze_code runs on one thread from its first statement to its return:
\* a step that can be taken is taken
FairSpec == Spec /\ WF_vars(Next)

\* the finished graph
Graph == visitor_state.code_graph
Done == pc = "done"

(***************************************************************************)
(* RelationSpec: Relation::validate and the identifier conversions, each   *)
(* applied once to a relation or to identifiers within MaxId.  An          *)
(* identifier of one of the three newtypes is [ty, n].                     *)
(***************************************************************************)
Id(ty, n) == [ty |-> ty, n |-> n]

\* From<NodeId>, From<TraitId> and From<TypeId> for GraphNodeId
Into(id) ==
    CASE id.ty = "NodeId" -> FromNodeId(id.n)
      [] id.ty = "TraitId" -> FromTraitId(id.n)
      [] id.ty = "TypeId" -> FromTypeId(id.n)

\* GraphIdentifier::as_graph_id, implemented for TraitId and TypeId
as_graph_id(id) ==
    CASE id.ty = "TraitId" -> GraphNodeId("Trait", id.n)
      [] id.ty = "TypeId" -> GraphNodeId("Type", id.n)

\* GraphIdentifier::from_graph_id: <<>> is None
from_graph_id(ty, id) ==
    CASE ty = "TraitId" ->
           IF id.type_prefix = "Trait" THEN <<Id("TraitId", id.unique_id)>> ELSE <<>>
      [] ty = "TypeId" ->
           IF id.type_prefix = "Type" THEN <<Id("TypeId", id.unique_id)>> ELSE <<>>

as_usize(id) == id.n

\* TypeId::as_node_id: Some(NodeId::from(self.0))
as_node_id(type_id) == <<Id("NodeId", type_id.n)>>

RelationKinds ==
    {"FunctionParameter", "FunctionReturn", "StructField", "EnumVariant",
     "ImplementsFor", "ImplementsTrait", "Inherits", "References", "Contains",
     "TypeDefinition", "Uses", "ValueType", "MacroUse", "MacroExpansion",
     "MacroDefinition", "MacroInvocation", "GenericParameter", "Returns",
     "HasType"}

\* the GraphNodeId values with the given tags
GraphNodeIds(tags) == {GraphNodeId(tag, n) : tag \in tags, n \in 0..MaxId}

RelationInit ==
    /\ visitor_state = VisitorStateNew
    /\ history = EmptyHistory
    /\ file = <<>>
    /\ pc = "relations"
    /\ idx = 0
    /\ last = Obs("new", <<>>, FALSE, 0)

\* Relation::validate; a kind other than ImplementsTrait has no payload,
\* and validate does not read trait_id for it
CallValidate ==
    /\ pc = "relations"
    /\ \E source, target \in {Into(Id(ty, n)) :
                                 ty \in {"NodeId", "TraitId", "TypeId"},
                                 n \in 0..MaxId} :
         \E kind \in RelationKinds :
           \E trait_id \in IF kind = "ImplementsTrait"
                           THEN GraphNodeIds({"Trait"})
                           ELSE {GraphNodeId("Trait", 0)} :
              last' = [op |-> "validate",
                       rel |-> Relation(source, target, kind),
                       trait_id |-> trait_id,
                       result |-> validate(Relation(source, target, kind),
                                           trait_id)]
    /\ pc' = "returned"
    /\ UNCHANGED <<visitor_state, history, file, idx>>

\* the From conversions of two identifiers
CallInto ==
    /\ pc = "relations"
    /\ \E t1, t2 \in {"NodeId", "TraitId", "TypeId"} :
         \E n1, n2 \in 0..MaxId :
            last' = [op |-> "into", ids |-> <<Id(t1, n1), Id(t2, n2)>>,
                     graph_ids |-> <<Into(Id(t1, n1)), Into(Id(t2, n2))>>]
    /\ pc' = "returned"
    /\ UNCHANGED <<visitor_state, history, file, idx>>

\* as_graph_id and from_graph_id of its result
CallAsGraphId ==
    /\ pc = "relations"
    /\ \E ty \in {"TraitId", "TypeId"} :
         \E n \in 0..MaxId :
            last' = [op |-> "as_graph_id", id |-> Id(ty, n),
                     graph_id |-> as_graph_id(Id(ty, n)),
                     back |-> from_graph_id(ty, as_graph_id(Id(ty, n)))]
    /\ pc' = "returned"
    /\ UNCHANGED <<visitor_state, history, file, idx>>

CallFromGraphId ==
    /\ pc = "relations"
    /\ \E ty \in {"TraitId", "TypeId"} :
         \E id \in GraphNodeIds({"Node", "Trait", "Type", "Module", "Function",
                                 "Impl"}) :
            last' = [op |-> "from_graph_id", ty |-> ty, graph_id |-> id,
                     result |-> from_graph_id(ty, id)]
    /\ pc' = "returned"
    /\ UNCHANGED <<visitor_state, history, file, idx>>

\* a NodeId and a TypeId built from the same number, and as_node_id
CallAsNodeId ==
    /\ pc = "relations"
    /\ \E n \in 0..MaxId :
         last' = [op |-> "as_node_id", node_id |-> Id("NodeId", n),
                  type_id |-> Id("TypeId", n),
                  result |-> as_node_id(Id("TypeId", n))]
    /\ pc' = "returned"
    /\ UNCHANGED <<visitor_state, history, file, idx>>

RelationNext ==
    \/ CallValidate
    \/ CallInto
    \/ CallAsGraphId
    \/ CallFromGraphId
    \/ CallAsNodeId

RelationSpec == RelationInit /\ [][RelationNext]_vars

(***************************************************************************)
(* C1: within one run, two get_or_create_type calls return the same TypeId *)
(* exactly when their type expressions have the same canonical text.       *)
(***************************************************************************)
C1_InterningIdempotent ==
    \A c1, c2 \in history.calls : (c1[1] = c2[1]) <=> (c1[2] = c2[2])

\* a call was answered from the cache while another text is interned too
C1_Witness ==
    /\ last.op = "get_or_create_type" /\ last.hit
    /\ Cardinality(history.calls) >= 2

(***************************************************************************)
(* C2: each allocator hands out 0, 1, 2, ... in this order, so no id is    *)
(* handed out twice, and its counter counts its own calls only.            *)
(***************************************************************************)
C2_AllocatorsSequential ==
    /\ \A i \in 1..Len(history.node_log) : history.node_log[i] = i - 1
    /\ \A i \in 1..Len(history.type_log) : history.type_log[i] = i - 1
    /\ visitor_state.next_node_id = Len(history.node_log)
    /\ visitor_state.next_type_id = Len(history.type_log)

C2_Witness ==
    /\ Len(history.node_log) >= 2
    /\ Len(history.type_log) >= 2

(***************************************************************************)
(* C3: every TypeId in the interning cache has exactly one TypeNode in the *)
(* type table; a miss of get_or_create_type allocates a new id, inserts    *)
(* the cache entry and appends the node; a hit changes nothing.            *)
(***************************************************************************)
NodesWithId(graph, id) ==
    {i \in 1..Len(graph.type_graph) : graph.type_graph[i].id = id}

C3_CacheHasOneNode ==
    \A key \in DOMAIN visitor_state.type_map :
        Cardinality(NodesWithId(visitor_state.code_graph,
                                visitor_state.type_map[key])) = 1

C3_Step ==
    last'.op = "get_or_create_type" =>
        IF last'.hit
        THEN visitor_state' = visitor_state
        ELSE /\ last'.key \notin DOMAIN visitor_state.type_map
             /\ last'.key \in DOMAIN visitor_state'.type_map
             /\ visitor_state'.type_map[last'.key] = last'.id
             /\ last'.id >= visitor_state.next_type_id
             /\ visitor_state'.next_type_id > last'.id
             /\ NodesWithId(visitor_state.code_graph, last'.id) = {}
             /\ Last(visitor_state'.code_graph.type_graph).id = last'.id

C3_CacheAndTable == [](C3_CacheHasOneNode) /\ [][C3_Step]_vars

(***************************************************************************)
(* C4: every relation of a finished graph passes Relation::validate.  The   *)
(* visitor builds the ImplementsTrait kind without its payload, so the      *)
(* relation counts as passing if it passes for some payload.               *)
(***************************************************************************)
TraitIdPayloads == {FromTraitId(u) : u \in {0, 1}}

C4_RelationsValid ==
    Done => \A i \in 1..Len(Graph.relations) :
                \E trait_id \in TraitIdPayloads :
                    validate(Graph.relations[i], trait_id).ok

(***************************************************************************)
(* C5: the finished graph has no ImplNode for an impl block whose trait is  *)
(* declared in the file with a visibility other than Public.               *)
(***************************************************************************)
VisitedItems == {history.visited[i] : i \in 1..Len(history.visited)}

DeclaredNonPublic(trait_name) ==
    \E d \in VisitedItems :
        d.k = "Trait" /\ d.name = trait_name /\ d.item.vis.k # "Public"

C5_NoImplOfNonPublicTrait ==
    Done => \A e \in VisitedItems :
                (e.k = "Impl" /\ e.item.trait # <<>>
                     /\ DeclaredNonPublic(e.item.trait[1]))
                => \A i \in 1..Len(Graph.impls) : Graph.impls[i].id # e.id

(***************************************************************************)
(* C6: every trait declaration is recorded exactly once: a Public trait in *)
(* traits, any other trait in private_traits.                              *)
(***************************************************************************)
TraitsWithId(traits, id) == {i \in 1..Len(traits) : traits[i].id = id}

C6_TraitsPartitioned ==
    Done => \A e \in VisitedItems :
                e.k = "Trait" =>
                    LET public == Cardinality(TraitsWithId(Graph.traits, e.id))
                        private == Cardinality(TraitsWithId(Graph.private_traits, e.id))
                    IN IF e.item.vis.k = "Public"
                       THEN public = 1 /\ private = 0
                       ELSE public = 0 /\ private = 1

(***************************************************************************)
(* C7: for every module, the root included, and every item or submodule it *)
(* directly encloses and a node was built for, the finished graph has a    *)
(* Contains relation from the module's id to that node's id.               *)
(***************************************************************************)
HasContains(source_id, target_id) ==
    \E i \in 1..Len(Graph.relations) :
        Graph.relations[i] =
            Relation(FromNodeId(source_id), FromNodeId(target_id), "Contains")

C7_ModuleContainsItems ==
    Done => \A e \in VisitedItems :
                (e.built /\ e.parent >= 0) => HasContains(e.parent, e.id)

(***************************************************************************)
(* C8: the submodules and items lists of every module node, the root       *)
(* included, hold ids of the nodes built for what the module directly      *)
(* encloses; they hold the id of every submodule and of every function     *)
(* declared directly in the module.                                        *)
(***************************************************************************)
C8_ModuleLists ==
    Done => \A i \in 1..Len(Graph.modules) :
                LET m == Graph.modules[i]
                IN /\ \A id \in Range(m.submodules) :
                        \E e \in VisitedItems :
                            e.k = "Mod" /\ e.id = id /\ e.parent = m.id
                   /\ \A id \in Range(m.items) :
                        \E e \in VisitedItems :
                            e.built /\ e.id = id /\ e.parent = m.id
                   /\ \A e \in VisitedItems :
                        (e.k = "Mod" /\ e.parent = m.id)
                            => e.id \in Range(m.submodules)
                   /\ \A e \in VisitedItems :
                        (e.k = "Fn" /\ e.parent = m.id) => e.id \in Range(m.items)

(***************************************************************************)
(* C9: the Contains relations between modules form a forest rooted at the  *)
(* root module: every other module is the target of exactly one, the root  *)
(* of none, and no module reaches itself along them.                       *)
(***************************************************************************)
ModuleIds == {Graph.modules[i].id : i \in 1..Len(Graph.modules)}

ModuleEdges ==
    {i \in 1..Len(Graph.relations) :
        /\ Graph.relations[i].kind = "Contains"
        /\ Graph.relations[i].source.type_prefix = "Node"
        /\ Graph.relations[i].target.type_prefix = "Node"
        /\ Graph.relations[i].source.unique_id \in ModuleIds
        /\ Graph.relations[i].target.unique_id \in ModuleIds}

EdgesInto(m) == {i \in ModuleEdges : Graph.relations[i].target.unique_id = m}

RECURSIVE ReachableFrom(_, _)
ReachableFrom(frontier, seen) ==
    LET next == {Graph.relations[i].target.unique_id :
                    i \in {j \in ModuleEdges :
                              Graph.relations[j].source.unique_id \in frontier}}
    IN IF next \subseteq seen THEN seen
       ELSE ReachableFrom(next \ seen, seen \cup next)

C9_ModuleForest ==
    Done => /\ \A m \in ModuleIds \ {RootModuleId} : Cardinality(EdgesInto(m)) = 1
            /\ EdgesInto(RootModuleId) = {}
            /\ \A m \in ModuleIds : m \notin ReachableFrom({m}, {})

\* a finished graph with a module nested in a module
C9_Witness ==
    /\ Done
    /\ \E e, f \in VisitedItems :
          e.k = "Mod" /\ f.k = "Mod" /\ e.parent = f.id /\ f.parent = RootModuleId

(***************************************************************************)
(* C10: for every struct declaration with n fields, whatever its           *)
(* visibility, defined_types has exactly one struct node for it, with n    *)
(* fields, and the graph has exactly n StructField relations from its id;  *)
(* fields of the same type text carry one TypeId with one TypeNode.        *)
(***************************************************************************)
StructNodes(id) ==
    {i \in 1..Len(Graph.defined_types) :
        Graph.defined_types[i].tag = "Struct" /\ Graph.defined_types[i].id = id}

FieldRelations(id) ==
    {i \in 1..Len(Graph.relations) :
        /\ Graph.relations[i].kind = "StructField"
        /\ Graph.relations[i].source = FromNodeId(id)}

C10_StructNode ==
    Done => \A e \in VisitedItems :
                e.k = "Struct" =>
                    LET n == Len(e.item.fields)
                    IN /\ Cardinality(StructNodes(e.id)) = 1
                       /\ Cardinality(FieldRelations(e.id)) = n
                       /\ \A i \in StructNodes(e.id) :
                            LET fields == Graph.defined_types[i].fields
                            IN /\ Len(fields) = n
                               /\ \A j, k \in 1..Len(fields) :
                                    to_token_string(e.item.fields[j].ty)
                                        = to_token_string(e.item.fields[k].ty)
                                    => fields[j].type_id = fields[k].type_id
                               /\ \A j \in 1..Len(fields) :
                                    Cardinality(NodesWithId(Graph,
                                        fields[j].type_id)) = 1

(***************************************************************************)
(* C11: a function or method with k parameters has exactly k               *)
(* FunctionParameter relations from its id, the i-th targeting the TypeId  *)
(* of the i-th parameter, and one FunctionReturn relation to the return    *)
(* TypeId when a return type is declared, none otherwise; a parameter and  *)
(* a return type of the same text share one TypeId.                        *)
(***************************************************************************)
MethodsOf(owners) ==
    UNION {Range(owners[i].methods) : i \in 1..Len(owners)}

AllFunctions ==
    Range(Graph.functions) \cup MethodsOf(Graph.impls) \cup MethodsOf(Graph.traits)

RelationsFrom(id, kinds) ==
    SelectSeq(Graph.relations,
              LAMBDA r : r.kind \in kinds /\ r.source = FromNodeId(id))

\* the declaration a function node was built from
DeclaredAs(f) ==
    {e.item : e \in {v \in VisitedItems : v.k = "Fn" /\ v.id = f.id}}

C11_FunctionRelations ==
    Done => \A f \in AllFunctions :
                /\ RelationsFrom(f.id, {"FunctionParameter"}) =
                       [i \in 1..Len(f.parameters) |->
                           Relation(FromNodeId(f.id),
                                    FromTypeId(f.parameters[i].type_id),
                                    "FunctionParameter")]
                /\ RelationsFrom(f.id, {"FunctionReturn", "Returns"}) =
                       [i \in 1..Len(f.return_type) |->
                           Relation(FromNodeId(f.id),
                                    FromTypeId(f.return_type[i]),
                                    "FunctionReturn")]
                /\ \A d \in DeclaredAs(f) :
                       /\ Len(f.parameters) = Len(d.params)
                       /\ Len(f.return_type) = Len(d.ret)
                       /\ \A i \in 1..Len(d.params) :
                            (d.ret # <<>> /\ to_token_string(d.params[i].ty)
                                                 = to_token_string(d.ret[1]))
                            => f.parameters[i].type_id = f.return_type[1]

(***************************************************************************)
(* C12: every recorded impl block has exactly one ImplementsFor relation   *)
(* from its id to its self-type id, exactly one ImplementsTrait relation   *)
(* from its id to the trait reference when it implements a trait, and no   *)
(* ImplementsTrait relation when it is an inherent impl.                   *)
(***************************************************************************)
Targets(relations) == [i \in 1..Len(relations) |-> relations[i].target.unique_id]

C12_ImplRelations ==
    Done => \A i \in 1..Len(Graph.impls) :
                /\ Targets(RelationsFrom(Graph.impls[i].id, {"ImplementsFor"}))
                       = <<Graph.impls[i].self_type>>
                /\ Targets(RelationsFrom(Graph.impls[i].id, {"ImplementsTrait"}))
                       = Graph.impls[i].trait_type

(***************************************************************************)
(* C12 as amended: every recorded impl block has exactly one relation from *)
(* its id to its self-type id, of kind ImplementsFor when it is an         *)
(* inherent impl and of kind ImplementsTrait when it implements a trait;   *)
(* an impl of a trait has exactly one more ImplementsTrait relation, from  *)
(* its id to the trait reference, and no ImplementsFor relation; an        *)
(* inherent impl has no ImplementsTrait relation.                          *)
(***************************************************************************)
C12_ImplRelationsByKind ==
    Done => \A i \in 1..Len(Graph.impls) :
                RelationsFrom(Graph.impls[i].id, {"ImplementsFor", "ImplementsTrait"})
                    = IF Graph.impls[i].trait_type = <<>>
                      THEN <<Relation(FromNodeId(Graph.impls[i].id),
                                      FromTypeId(Graph.impls[i].self_type),
                                      "ImplementsFor")>>
                      ELSE <<Relation(FromNodeId(Graph.impls[i].id),
                                      FromTypeId(Graph.impls[i].self_type),
                                      "ImplementsTrait"),
                             Relation(FromNodeId(Graph.impls[i].id),
                                      FromTypeId(Graph.impls[i].trait_type[1]),
                                      "ImplementsTrait")>>

\* a finished graph that records an impl of a trait
C12_Witness ==
    /\ Done
    /\ \E i \in 1..Len(Graph.impls) : Graph.impls[i].trait_type # <<>>

(***************************************************************************)
(* C13: for every recorded impl of a trait declared in the file, the       *)
(* ImplNode's trait reference is the id of that trait's TraitNode, so the  *)
(* lookup of the reference among the trait nodes finds the implemented     *)
(* trait, and the ImplNode's self type is the id of a TypeNode of the type *)
(* table.                                                                  *)
(***************************************************************************)
DeclaredTrait(trait_name) ==
    \E d \in VisitedItems : d.k = "Trait" /\ d.name = trait_name

\* the lookup of find_impl_by_name: the first trait node with the id
TraitReferredBy(impl_node) ==
    FirstWhere(Graph.traits, LAMBDA t : <<t.id>> = impl_node.trait_type)

C13_ImplReferencesResolve ==
    Done => \A e \in VisitedItems :
                \A i \in 1..Len(Graph.impls) :
                    (/\ e.k = "Impl" /\ e.id = Graph.impls[i].id
                     /\ e.item.trait # <<>> /\ DeclaredTrait(e.item.trait[1]))
                    => /\ TraitReferredBy(Graph.impls[i]) # <<>>
                       /\ TraitReferredBy(Graph.impls[i])[1].name = e.item.trait[1]
                       /\ NodesWithId(Graph, Graph.impls[i].self_type) # {}

(***************************************************************************)
(* C14: Relation::validate returns Ok exactly when the source and the      *)
(* target carry the tags expected for the kind and, for Contains and       *)
(* Inherits, differ; an ImplementsTrait relation from a type to a trait is *)
(* accepted for every trait id, zero included.                             *)
(***************************************************************************)
\* the tags of the source and of the target a kind is documented to link
ExpectedTags(kind) ==
    CASE kind = "ImplementsTrait" -> <<"Type", "Trait">>
      [] kind = "ImplementsFor" -> <<"Trait", "Type">>
      [] kind = "Inherits" -> <<"Type", "Type">>
      [] kind \in {"References", "Contains", "MacroUse", "MacroExpansion",
                   "MacroInvocation"} -> <<"Node", "Node">>
      [] OTHER -> <<"Node", "Type">>

TagsAsExpected(rel) ==
    /\ rel.source.type_prefix = ExpectedTags(rel.kind)[1]
    /\ rel.target.type_prefix = ExpectedTags(rel.kind)[2]

C14_ValidateAcceptsByTags ==
    last.op = "validate" =>
        (last.result.ok <=>
            /\ TagsAsExpected(last.rel)
            /\ last.rel.kind \in {"Contains", "Inherits"}
                   => last.rel.source # last.rel.target)

(***************************************************************************)
(* C15: on a Contains or Inherits relation with the expected tags,         *)
(* validate returns the circular-dependency error, with the kind and both  *)
(* ends, exactly when source and target are the same entity; no relation   *)
(* of another kind is rejected as circular, equal numeric ids or not.      *)
(***************************************************************************)
C15_CircularOnlySelfLoop ==
    last.op = "validate" =>
        IF last.rel.kind \in {"Contains", "Inherits"}
        THEN TagsAsExpected(last.rel) =>
                IF last.rel.source = last.rel.target
                THEN /\ ~last.result.ok
                     /\ last.result.err = "CircularDependency"
                     /\ last.result.kind = last.rel.kind
                     /\ last.result.source_id = last.rel.source
                     /\ last.result.target_id = last.rel.target
                ELSE last.result.ok
        ELSE last.result.err # "CircularDependency"

\* validate has rejected a self-loop
C15_Witness ==
    /\ last.op = "validate"
    /\ last.result.err = "CircularDependency"

(***************************************************************************)
(* C16: the conversions from NodeId, TypeId and TraitId to GraphNodeId are *)
(* total and jointly injective; from_graph_id(as_graph_id(x)) returns x,   *)
(* and from_graph_id of a GraphNodeId with another tag returns None.       *)
(***************************************************************************)
TagOf(ty) ==
    CASE ty = "NodeId" -> "Node" [] ty = "TraitId" -> "Trait" [] ty = "TypeId" -> "Type"

C16_ConversionsInjective ==
    /\ last.op = "into" =>
          /\ \A i \in 1..2 :
                last.graph_ids[i] = GraphNodeId(TagOf(last.ids[i].ty), last.ids[i].n)
          /\ last.graph_ids[1] = last.graph_ids[2] => last.ids[1] = last.ids[2]
    /\ last.op = "as_graph_id" => last.back = <<last.id>>
    /\ last.op = "from_graph_id" =>
          (last.graph_id.type_prefix # TagOf(last.ty) => last.result = <<>>)

\* ids of different kinds and of the same number have been converted
C16_Witness ==
    /\ last.op = "into"
    /\ last.ids[1].ty # last.ids[2].ty
    /\ last.ids[1].n = last.ids[2].n

(***************************************************************************)
(* C17: a NodeId and a TypeId built from the same number have equal        *)
(* as_usize values, yet the NodeId that as_node_id makes of the TypeId is  *)
(* not equal to the NodeId, and a set holding the NodeId does not hold it. *)
(***************************************************************************)
C17_IdTypeSafety ==
    last.op = "as_node_id" =>
        /\ as_usize(last.node_id) = as_usize(last.type_id)
        /\ last.result # <<>>
        /\ last.result[1] # last.node_id
        /\ last.result[1] \notin {last.node_id}

(***************************************************************************)
(* C18: two runs of the analysis on the same input yield the same graph.   *)
(* Not stated: the operations of the model are functions of the input, so  *)
(* two runs agree by definition.                                           *)
(***************************************************************************)

(***************************************************************************)
(* C19: every builder step only appends to the collections of the graph:   *)
(* what a collection holds before the step is a prefix of what it holds    *)
(* after it.                                                               *)
(***************************************************************************)
Collections ==
    {"functions", "defined_types", "type_graph", "impls", "traits",
     "relations", "modules", "values", "macros"}

IsPrefix(before, after) ==
    /\ Len(before) <= Len(after)
    /\ \A i \in 1..Len(before) : after[i] = before[i]

C19_Step ==
    \A c \in Collections :
        IsPrefix(visitor_state.code_graph[c], visitor_state'.code_graph[c])

C19_AppendOnly == [][C19_Step]_vars

\* a step has appended to collections that held entries already
C19_Witness ==
    /\ pc = "visit" /\ idx = 3
    /\ Len(Graph.relations) >= 3
    /\ Len(Graph.type_graph) >= 2
    /\ Len(Graph.functions) >= 2

(***************************************************************************)
(* C20: the default TypeId recorded for a type parameter with a default    *)
(* type is the TypeId get_or_create_type yields for the default type,      *)
(* cached before or not, and the type table has a TypeNode with that id.   *)
(***************************************************************************)
C20_DefaultResolved ==
    last.op = "process_generics" =>
        \A i \in 1..Len(last.generics) :
            (last.generics[i].k = "Type" /\ last.generics[i].default # <<>>)
            => /\ to_token_string(last.generics[i].default[1])
                     \in DOMAIN visitor_state.type_map
               /\ last.params[i].default =
                     <<visitor_state.type_map[
                           to_token_string(last.generics[i].default[1])]>>
               /\ NodesWithId(visitor_state.code_graph,
                              last.params[i].default[1]) # {}

(***************************************************************************)
(* C21: get_or_create_type returns a TypeId that has a TypeNode in the     *)
(* type table, for every type expression; a shape process_type does not    *)
(* know is recorded as a TypeNode of the Unknown kind that carries the     *)
(* expression's text and has no related types.                             *)
(***************************************************************************)
UnknownTexts ==
    {to_token_string(ty) : ty \in {t \in TypeExprs : t.k = "Verbatim"}}

C21_EveryTypeRecorded ==
    last.op = "get_or_create_type" =>
        \E i \in NodesWithId(visitor_state.code_graph, last.id) :
            last.key \in UnknownTexts =>
                visitor_state.code_graph.type_graph[i] =
                    TypeNode(last.id, Kind("Unknown", <<>>, FALSE, last.key), <<>>)

(***************************************************************************)
(* C22: a receiver is recorded as the parameter "self" with the receiver   *)
(* flag set and the mutability of the declared receiver; its TypeId is the *)
(* id of a Named "Self" TypeNode of the type table, which no other         *)
(* TypeNode carries, and whose only related type is the interned declared  *)
(* receiver type.                                                          *)
(***************************************************************************)
C22_ReceiverParameter ==
    (last.op = "process_fn_arg" /\ last.arg.k = "Receiver") =>
        /\ last.param.name = <<"self">>
        /\ last.param.is_self
        /\ last.param.is_mutable = last.arg.is_mutable
        /\ to_token_string(last.arg.ty) \in DOMAIN visitor_state.type_map
        /\ \E i \in 1..Len(visitor_state.code_graph.type_graph) :
              /\ NodesWithId(visitor_state.code_graph, last.param.type_id) = {i}
              /\ visitor_state.code_graph.type_graph[i] =
                    TypeNode(last.param.type_id,
                             Kind("Named", <<"Self">>, FALSE, ""),
                             <<visitor_state.type_map[
                                   to_token_string(last.arg.ty)]>>)

(***************************************************************************)
(* C23: every method node stored in a trait node has visibility Public,    *)
(* whatever the visibility the trait is declared with.                     *)
(***************************************************************************)
StoredTraits ==
    Range(visitor_state.code_graph.traits)
        \cup Range(visitor_state.code_graph.private_traits)

C23_TraitMethodsPublic ==
    \A t \in StoredTraits :
        \A i \in 1..Len(t.methods) :
            t.methods[i].visibility = [kind |-> "Public", path |-> <<>>]

\* a trait that is not declared pub is stored with a method
C23_Witness ==
    \E t \in StoredTraits : t.visibility.kind # "Public" /\ t.methods # <<>>

(***************************************************************************)
(* C24: an impl block of a trait that the same file declares Public is     *)
(* recorded in impls, whether the trait declaration is visited before the  *)
(* impl block or after it.                                                 *)
(***************************************************************************)
DeclaredPublic(trait_name) ==
    \E d \in VisitedItems :
        d.k = "Trait" /\ d.name = trait_name /\ d.item.vis.k = "Public"

C24_ImplOfPublicTraitKept ==
    Done => \A e \in VisitedItems :
                (e.k = "Impl" /\ e.item.trait # <<>>
                     /\ DeclaredPublic(e.item.trait[1]))
                => \E i \in 1..Len(Graph.impls) : Graph.impls[i].id = e.id

(***************************************************************************)
(* C25: a get_or_create_type call on a trait-object or impl-trait type     *)
(* that misses the cache appends, for each trait bound in turn, a Named    *)
(* TypeNode with an id not handed out before, whether or not the bound's   *)
(* text is in the cache, and then the node of the whole expression with    *)
(* these ids as related types; a call that hits the cache allocates no     *)
(* TypeId and appends no TypeNode.  So no bound TypeId is shared by the    *)
(* nodes of two such expressions.                                          *)
(***************************************************************************)
TraitBounds(ty) == SelectSeq(ty.subs, LAMBDA b : b.k = "Path")

BoundedNodes(graph) ==
    {i \in 1..Len(graph.type_graph) :
        graph.type_graph[i].kind.tag \in {"TraitObject", "ImplTrait"}}

C25_BoundsNotShared ==
    \A i, j \in BoundedNodes(visitor_state.code_graph) :
        i # j => Range(visitor_state.code_graph.type_graph[i].related_types)
                    \cap Range(visitor_state.code_graph.type_graph[j].related_types)
                 = {}

C25_Step ==
    (last'.op = "get_or_create_type"
        /\ last'.ty.k \in {"TraitObject", "ImplTrait"}) =>
        LET before == visitor_state.code_graph.type_graph
            after == visitor_state'.code_graph.type_graph
            first == visitor_state.next_type_id
            bounds == TraitBounds(last'.ty)
            n == Len(bounds)
        IN IF last'.hit
           THEN /\ after = before
                /\ visitor_state'.next_type_id = first
           ELSE /\ Len(after) = Len(before) + n + 1
                /\ SubSeq(after, 1, Len(before)) = before
                /\ visitor_state'.next_type_id = first + n + 1
                /\ \A j \in 1..n :
                      after[Len(before) + j] =
                          TypeNode(first + j - 1,
                                   Kind("Named", <<bounds[j].name>>, FALSE, ""),
                                   <<>>)
                /\ after[Len(after)].id = last'.id
                /\ after[Len(after)].related_types =
                      [j \in 1..n |-> first + j - 1]

C25_BoundsUnconditional == [](C25_BoundsNotShared) /\ [][C25_Step]_vars

\* a trait object misses the cache while its bound's text is cached and
\* another bounded type is in the table already
C25_Witness ==
    /\ last.op = "get_or_create_type" /\ ~last.hit
    /\ last.ty.k \in {"TraitObject", "ImplTrait"}
    /\ \A j \in 1..Len(TraitBounds(last.ty)) :
          to_token_string(TraitBounds(last.ty)[j]) \in DOMAIN visitor_state.type_map
    /\ Cardinality(BoundedNodes(visitor_state.code_graph)) >= 2

(***************************************************************************)
(* C26: a macro invocation takes exactly one NodeId and adds at most one   *)
(* relation: a MacroUse relation from the invocation's id to the first     *)
(* macro recorded before it whose name is the invoked macro's name (the    *)
(* last segment of the invoked path) when there is one, and nothing        *)
(* otherwise.                                                              *)
(***************************************************************************)
Invocations == Range(history.invocations)

C26_MacroUse ==
    \A e \in Invocations :
        /\ e.ids = 1
        /\ e.added =
              LET defined == FirstWhere(e.macros, LAMBDA m : m.name = Last(e.path))
              IN IF defined = <<>> THEN <<>>
                 ELSE <<Relation(FromNodeId(e.id), FromNodeId(defined[1].id),
                                 "MacroUse")>>

(***************************************************************************)
(* C27: in a finished graph, each end of each relation is the id of an     *)
(* entity stored in the graph: for a node-tagged end a node of one of the  *)
(* node collections or one nested in such a node (field, variant,          *)
(* parameter, generic parameter, method, macro rule), for a type-tagged    *)
(* end a TypeNode of the type table.                                       *)
(***************************************************************************)
IdsOf(nodes) == {x.id : x \in Range(nodes)}

Nested(nodes, field) == UNION {Range(x[field]) : x \in nodes}

StoredFunctions ==
    Range(Graph.functions)
        \cup Nested(Range(Graph.impls) \cup Range(Graph.traits)
                        \cup Range(Graph.private_traits), "methods")

StoredNodeIds ==
    LET owners == Range(Graph.defined_types) \cup Range(Graph.impls)
                      \cup Range(Graph.traits) \cup Range(Graph.private_traits)
        variants == Nested(Range(Graph.defined_types), "variants")
    IN {x.id : x \in StoredFunctions \cup owners \cup variants
                        \cup Range(Graph.modules) \cup Range(Graph.values)
                        \cup Range(Graph.macros)
                        \cup Nested(StoredFunctions, "parameters")
                        \cup Nested(StoredFunctions \cup owners, "generic_params")
                        \cup Nested(Range(Graph.defined_types) \cup variants, "fields")
                        \cup Nested(Range(Graph.macros), "rules")}

Stored(graph_id) ==
    IF graph_id.type_prefix = "Type"
    THEN graph_id.unique_id \in IdsOf(Graph.type_graph)
    ELSE graph_id.unique_id \in StoredNodeIds

C27_RelationEndsStored ==
    Done => \A i \in 1..Len(Graph.relations) :
                /\ Stored(Graph.relations[i].source)
                /\ Stored(Graph.relations[i].target)

(***************************************************************************)
(* C28: in a finished graph, every Contains relation whose source is a     *)
(* module targets the node built from an item that this module directly    *)
(* encloses, also when another module of the file declares an item of the  *)
(* same kind and name.                                                     *)
(***************************************************************************)
Encloses(module_id, node_id) ==
    \E e \in VisitedItems : e.built /\ e.parent = module_id /\ e.id = node_id

C28_ContainsOwnItems ==
    Done => \A i \in 1..Len(Graph.relations) :
                (/\ Graph.relations[i].kind = "Contains"
                 /\ Graph.relations[i].source.unique_id \in ModuleIds)
                => Encloses(Graph.relations[i].source.unique_id,
                            Graph.relations[i].target.unique_id)

(***************************************************************************)
(* C29: when Relation::validate fails on a tag mismatch, a mismatch of the *)
(* source is reported before one of the target and either before a         *)
(* circular dependency; the error carries the relation's kind and, as the  *)
(* found tag, the tag of the offending end: the source's for               *)
(* InvalidSourceType, the target's for InvalidTargetType.                  *)
(***************************************************************************)
C29_MismatchReport ==
    last.op = "validate" =>
        LET rel == last.rel
            result == last.result
            expected == ExpectedTags(rel.kind)
        IN /\ result.err = "InvalidSourceType" =>
                 /\ rel.source.type_prefix # expected[1]
                 /\ result.kind = rel.kind
                 /\ result.found = rel.source.type_prefix
           /\ result.err = "InvalidTargetType" =>
                 /\ rel.source.type_prefix = expected[1]
                 /\ rel.target.type_prefix # expected[2]
                 /\ result.kind = rel.kind
                 /\ result.found = rel.target.type_prefix
           /\ result.err = "CircularDependency" => TagsAsExpected(rel)

(***************************************************************************)
(* C30: the analysis of a file ends with a finished graph.  On the way     *)
(* every declaration is dispatched at most once, the nodes built have ids   *)
(* of their own, and get_or_create_type is only ever called on a type the  *)
(* visitor takes from a declaration or on a sub-expression of such a type. *)
(***************************************************************************)
RECURSIVE SubExprs(_)
SubExprs(ty) ==
    {ty} \cup UNION {SubExprs(ty.subs[i]) : i \in 1..Len(ty.subs)}

\* the types process_generics interns for a generic parameter list
GenericTypes(generics) ==
    UNION {{TPath(b.name) : b \in {x \in Range(g.bounds) : x.k = "Trait"}}
               \cup Range(g.default)
               \cup (IF g.k = "Const" THEN {g.ty} ELSE {}) :
           g \in Range(generics)}

\* the types the visit methods hand to get_or_create_type for a declaration
\* and for what it encloses
RECURSIVE HandedTypes(_)
HandedTypes(item) ==
    IF item.k = "MacroCall" THEN {}
    ELSE {a.ty : a \in Range(item.params)} \cup Range(item.ret)
         \cup {f.ty : f \in Range(item.fields)}
         \cup UNION {{f.ty : f \in Range(v.fields)} : v \in Range(item.variants)}
         \cup (IF item.k = "Impl"
               THEN {item.self_ty} \cup {TPath(t) : t \in Range(item.trait)}
               ELSE {})
         \cup {TBareObject(<<sup>>) : sup \in Range(item.supers)}
         \cup (IF item.k \in {"Const", "Static", "Type"} THEN {item.ty} ELSE {})
         \cup GenericTypes(item.generics)
         \cup UNION {HandedTypes(x) :
                     x \in Range(item.methods) \cup Range(item.content)
                               \cup Range(item.body)}

HandedTexts ==
    {to_token_string(sub) :
        sub \in UNION {SubExprs(ty) :
                       ty \in UNION {HandedTypes(file[i]) : i \in 1..Len(file)}}}

\* the declarations of a list of items, the enclosed ones included
RECURSIVE Declarations(_)
Declarations(items) ==
    IF items = <<>> THEN 0
    ELSE Declarations(Tail(items))
         + (IF Head(items).k = "MacroCall" THEN 0
            ELSE 1 + Declarations(Head(items).content)
                   + Declarations(Head(items).body))

C30_DispatchedOnce ==
    /\ \A i, j \in 1..Len(history.visited) :
          (i # j /\ history.visited[i].built /\ history.visited[j].built)
          => history.visited[i].id # history.visited[j].id
    /\ Len(history.visited) <= Declarations(file)
    /\ \A c \in history.calls : c[1] \in HandedTexts

C30_Terminates == [](C30_DispatchedOnce) /\ <>Done

\* the analysis of a file with enclosed declarations and a compound type
\* has finished
C30_Witness ==
    /\ Done
    /\ Len(history.visited) > Len(file)
    /\ \E c \in history.calls : Len(c[1]) > 1

====
